---- MODULE Spec2Model ----
(***************************************************************************)
(* BeachVar agent: the update orchestrator (src/src/updater.py), the       *)
(* backend facade's maintenance-window check (src/src/backend.py) and the  *)
(* Version Store file (versions.json).                                     *)
(*                                                                         *)
(* Three specifications share the module:                                  *)
(*   Spec        the run loop of Updater.run: bootstrap, then ticks of     *)
(*               ensure_containers_running / run_once / sync_config.       *)
(*   SpecWindows BackendClient.is_update_allowed on every response of a    *)
(*               bounded set and every time of day of a sample set.        *)
(*   SpecStore   Updater._save_versions followed by Updater._load_versions *)
(*               on every mapping and every prior file of a bounded set.   *)
(***************************************************************************)
EXTENDS Integers, Sequences, FiniteSets, TLC

VARIABLES
    \* ---- Updater (Spec) ----
    pc,             \* position in Updater.run
    versions,       \* self.versions
    file,           \* contents of VERSION_FILE, or Missing
    pending,        \* self._agent_update_pending
    authDone,       \* self._auth_setup_done
    log,            \* summary of the operations issued by the step that ran last
    handler,        \* which handler the log belongs to
    allowed,        \* what is_update_allowed returned in this run_once
    device_digest,  \* run_once local
    agent_digest,   \* run_once local
    updated,        \* run_once local
    cycle,          \* how the current run_once has gone for each workload so far
    cycleStart,     \* self.versions when the current run_once began
    sinceUpdate,    \* now - last_update_check, in ticks, capped
    sinceSync,      \* now - last_config_sync, in ticks, capped
    boot,           \* how bootstrap ended, up to the end of the first tick
    healthy,        \* what ensure_containers_running returned, while log is its log
    pulled,         \* the history of pulls (kept when pulled.on): per workload, the
                    \* digests its image has been pulled at so far
    \* ---- is_update_allowed (SpecWindows) ----
    wpc, wResp, wNow, wResult,
    \* ---- Version Store round trip (SpecStore) ----
    spc, sMap, sFile, sSaved, sLoaded,
    \* ---- RegistryClient (SpecRegistry) ----
    github_token,   \* self.github_token
    cache,          \* self._bearer_token_cache
    issued,         \* how many bearer tokens the registry has issued
    stale,          \* the bearer tokens that were cached when set_token was called
    seen,           \* the images resolved since the last set_token
    rLast,          \* the call of _get_bearer_token made last
    \* ---- the detached helper (SpecHelper) ----
    agent,          \* the orchestrator process: "running" or "killed"
    hpc,            \* where the orchestrator is in _run_compose_via_docker_api
    hCmd,           \* the compose command of the spawn under way or made last
    hImage,         \* what _ensure_helper_image returned in that spawn, None before
    hReq,           \* the requests that spawn has sent to the control socket
    hResult,        \* what that spawn returned, None while it is under way
    helper,         \* the container named beachvar-starter
    \* ---- the passes of run() (SpecLoop) ----
    lpc,            \* where run() is in its pass
    lUpdate,        \* now - last_update_check, in ticks, capped
    lSync,          \* now - last_config_sync, in ticks, capped
    lPending,       \* self._agent_update_pending
    lRan,           \* the handler the last step called, "none" when it called none
    lOut,           \* how that call ended: "True", "False", "raised"; None without a call
    lLog,           \* the operations that call issued
    \* ---- one digest resolution (SpecDigest) ----
    dpc,            \* "idle", "called" or "returned"
    dImage,         \* the image whose remote digest is asked for
    dAuth,          \* self._auth_setup_done
    dOps,           \* the operations the resolution that returned last issued, in order
    dResult         \* what that resolution returned

updVars == <<pc, versions, file, pending, authDone, log, handler, allowed,
             device_digest, agent_digest, updated, cycle, cycleStart,
             sinceUpdate, sinceSync, boot, healthy, pulled>>
winVars == <<wpc, wResp, wNow, wResult>>
stoVars == <<spc, sMap, sFile, sSaved, sLoaded>>
regVars == <<github_token, cache, issued, stale, seen, rLast>>
hlpVars == <<agent, hpc, hCmd, hImage, hReq, hResult, helper>>
loopVars == <<lpc, lUpdate, lSync, lPending, lRan, lOut, lLog>>
digVars == <<dpc, dImage, dAuth, dOps, dResult>>
vars == <<updVars, winVars, stoVars, regVars, hlpVars, loopVars, digVars>>

\* what a step of one part leaves alone
notUpd == <<winVars, stoVars, regVars, hlpVars, loopVars, digVars>>
notWin == <<updVars, stoVars, regVars, hlpVars, loopVars, digVars>>
notSto == <<updVars, winVars, regVars, hlpVars, loopVars, digVars>>
notReg == <<updVars, winVars, stoVars, hlpVars, loopVars, digVars>>
notHlp == <<updVars, winVars, stoVars, regVars, loopVars, digVars>>
notLoop == <<updVars, winVars, stoVars, regVars, hlpVars, digVars>>
notDig == <<updVars, winVars, stoVars, regVars, hlpVars, loopVars>>

-----------------------------------------------------------------------------
(* Values *)

Min(a, b) == IF a <= b THEN a ELSE b

\* Python's None (not the string "None")
None == "<None>"

\* a Python bool, as a value that can stand next to None
Bool(b) == IF b THEN "True" ELSE "False"

\* content digests a registry can serve
Digests == {"sha256:aaa", "sha256:bbb"}

DigestOpt == Digests \cup {None}

\* the workloads of the Version Store
Workloads == {"device", "agent"}

\* bool(x) of a str | None
Truthy(x) == x # None /\ x # ""

-----------------------------------------------------------------------------
(* Version Store: json.dump / json.load on the state file.                  *)
(* A file is Missing or holds a sequence of JSON tokens; a token is a pair.  *)

Missing == [exists |-> FALSE, toks |-> <<>>]

FileOf(toks) == [exists |-> TRUE, toks |-> toks]

EmptyDict == [k \in {} |-> None]

LBrace == <<"punct", "{">>
RBrace == <<"punct", "}">>
Colon  == <<"punct", ":">>
Comma  == <<"punct", ",">>
NullTok == <<"literal", "null">>
StrTok(s) == <<"string", s>>

IsStrTok(t) == t[1] = "string"
IsValueTok(t) == IsStrTok(t) \/ t = NullTok

\* json encoder: None -> null, str -> "str"
JsonValueNoneAsStr(x) == StrTok(IF x = None THEN "None" ELSE x)
JsonValue(x) == IF x = None THEN NullTok ELSE StrTok(x)

\* dict.get(k)
Get(v, k) == IF k \in DOMAIN v THEN v[k] ELSE None

\* v[k] = x
Put(v, k, x) == [kk \in (DOMAIN v) \cup {k} |-> IF kk = k THEN x ELSE v[kk]]

\* keys of a versions dict in the order json.dump writes them
KeyOrder(v) ==
    (IF "device" \in DOMAIN v THEN <<"device">> ELSE <<>>) \o
    (IF "agent" \in DOMAIN v THEN <<"agent">> ELSE <<>>)

RECURSIVE JsonMembers(_, _)
JsonMembers(v, keys) ==
    IF keys = <<>> THEN <<>>
    ELSE <<StrTok(Head(keys)), Colon, JsonValue(v[Head(keys)])>> \o
         (IF Len(keys) > 1 THEN <<Comma>> ELSE <<>>) \o
         JsonMembers(v, Tail(keys))

\* json.dump(self.versions, f, indent=2)
JsonDump(v) == <<LBrace>> \o JsonMembers(v, KeyOrder(v)) \o <<RBrace>>

\* the members of a JSON object between its braces: key : value (, key : value)*
MembersOk(inner) ==
    \/ inner = <<>>
    \/ /\ Len(inner) % 4 = 3
       /\ \A i \in 1..Len(inner) :
            CASE i % 4 = 1 -> IsStrTok(inner[i])
              [] i % 4 = 2 -> inner[i] = Colon
              [] i % 4 = 3 -> IsValueTok(inner[i])
              [] OTHER     -> inner[i] = Comma

JsonValueOf(t) == IF t = NullTok THEN None ELSE t[2]

\* the dict of a member list; a repeated key keeps its last value
MembersDict(inner) ==
    LET n == (Len(inner) + 1) \div 4
        keys == {inner[4 * (i - 1) + 1][2] : i \in 1..n}
        last(k) == CHOOSE i \in 1..n :
                      /\ inner[4 * (i - 1) + 1][2] = k
                      /\ \A j \in 1..n : inner[4 * (j - 1) + 1][2] = k => j <= i
    IN  [k \in keys |-> JsonValueOf(inner[4 * (last(k) - 1) + 3])]

\* json.load(f): the parsed object, or a JSONDecodeError
JsonLoad(toks) ==
    IF /\ Len(toks) >= 2
       /\ toks[1] = LBrace
       /\ toks[Len(toks)] = RBrace
       /\ MembersOk(SubSeq(toks, 2, Len(toks) - 1))
    THEN [raised |-> FALSE, value |-> MembersDict(SubSeq(toks, 2, Len(toks) - 1))]
    ELSE [raised |-> TRUE, value |-> EmptyDict]

NoVersions == [k \in Workloads |-> None]

\* Updater._load_versions without its try/except
LoadVersionsUnguarded(f, readable) ==
    IF f.exists
    THEN IF readable /\ ~JsonLoad(f.toks).raised
         THEN [raised |-> FALSE, value |-> JsonLoad(f.toks).value]
         ELSE [raised |-> TRUE, value |-> NoVersions]
    ELSE [raised |-> FALSE, value |-> NoVersions]

\* Updater._load_versions: readable is whether open() succeeds
LoadVersions(f, readable) ==
    IF f.exists
    THEN IF readable /\ ~JsonLoad(f.toks).raised
         THEN [raised |-> FALSE, value |-> JsonLoad(f.toks).value]
         ELSE [raised |-> FALSE, value |-> NoVersions]
    ELSE [raised |-> FALSE, value |-> NoVersions]

\* how a write of the state file can end
SaveOutcomes == {"ok", "not_opened", "cut"}

\* Updater._save_versions: the file it leaves. mkdir or open failing leaves the
\* file as it was; a write failing after open(..., "w") leaves a proper prefix of
\* the text, none of which parses: the empty prefix stands for them.
SaveVersions(f, v, outcome) ==
    CASE outcome = "ok" -> FileOf(JsonDump(v))
      [] outcome = "not_opened" -> f
      [] OTHER -> FileOf(<<>>)

(* Inputs of the round trip *)

Mappings == UNION {[D -> DigestOpt] : D \in SUBSET Workloads}

WrittenFiles == {FileOf(JsonDump(m)) : m \in Mappings}

\* a written file cut short after n tokens
CutFiles == {FileOf(SubSeq(f.toks, 1, Min(n, Len(f.toks) - 1))) : f \in WrittenFiles, n \in 0..4}

PriorFiles == {Missing} \cup WrittenFiles \cup CutFiles

SInit ==
    /\ spc = "start"
    /\ sMap \in Mappings
    /\ sFile \in PriorFiles
    /\ sSaved = "none"
    /\ sLoaded = [raised |-> FALSE, value |-> NoVersions, read |-> FALSE]

\* self.versions = sMap; self._save_versions()
SSave ==
    /\ spc = "start"
    /\ \E o \in SaveOutcomes :
          /\ sFile' = SaveVersions(sFile, sMap, o)
          /\ sSaved' = o
    /\ spc' = "saved"
    /\ UNCHANGED <<sMap, sLoaded>>
    /\ UNCHANGED notSto

\* a new Updater: self.versions = self._load_versions()
SLoad ==
    /\ spc \in {"start", "saved"}
    /\ \E readable \in BOOLEAN :
          sLoaded' = [raised |-> LoadVersions(sFile, readable).raised,
                      value |-> LoadVersions(sFile, readable).value,
                      read |-> readable]
    /\ spc' = "loaded"
    /\ UNCHANGED <<sMap, sFile, sSaved>>
    /\ UNCHANGED notSto

SNext == SSave \/ SLoad

-----------------------------------------------------------------------------
(* Backend facade: maintenance windows (src/src/backend.py)                 *)
(* A time string is a sequence of characters; a time of day is <<h, m, s>>. *)

DigitChars == <<"0", "1", "2", "3", "4", "5", "6", "7", "8", "9">>

IsDigit(c) == \E i \in 1..10 : DigitChars[i] = c

DigitVal(c) == (CHOOSE i \in 1..10 : DigitChars[i] = c) - 1

AllDigits(s) == \A i \in 1..Len(s) : IsDigit(s[i])

RECURSIVE NumVal(_)
NumVal(s) == IF s = <<>> THEN 0 ELSE 10 * NumVal(SubSeq(s, 1, Len(s) - 1)) + DigitVal(s[Len(s)])

ColonAt(s) == {i \in 1..Len(s) : s[i] = ":"}

\* datetime.strptime(s, "%H:%M").time(): %H is 2[0-3]|[0-1]\d|\d, %M is [0-5]\d|\d,
\* and the whole string must be consumed; otherwise ValueError
StrpTime(s) ==
    IF \E p \in ColonAt(s) :
          LET hh == SubSeq(s, 1, p - 1)
              mm == SubSeq(s, p + 1, Len(s))
          IN  /\ Len(hh) \in {1, 2} /\ AllDigits(hh) /\ NumVal(hh) <= 23
              /\ Len(mm) \in {1, 2} /\ AllDigits(mm) /\ NumVal(mm) <= 59
    THEN LET p == CHOOSE q \in ColonAt(s) : \A r \in ColonAt(s) : q <= r
         IN  [raised |-> FALSE,
              time |-> <<NumVal(SubSeq(s, 1, p - 1)), NumVal(SubSeq(s, p + 1, Len(s))), 0>>]
    ELSE [raised |-> TRUE, time |-> <<0, 0, 0>>]

\* datetime.time comparison: by (hour, minute, second)
TimeLe(a, b) ==
    \/ a[1] < b[1]
    \/ a[1] = b[1] /\ a[2] < b[2]
    \/ a[1] = b[1] /\ a[2] = b[2] /\ a[3] <= b[3]

\* the body of the loop of is_update_allowed with the end boundary excluded
WindowAdmitsEndExclusive(w, now) ==
    IF w.start_time = <<>> \/ w.end_time = <<>> THEN FALSE
    ELSE IF StrpTime(w.start_time).raised \/ StrpTime(w.end_time).raised THEN FALSE
    ELSE LET start_time == StrpTime(w.start_time).time
             end_time == StrpTime(w.end_time).time
         IN  IF TimeLe(start_time, end_time)
             THEN TimeLe(start_time, now) /\ TimeLe(now, end_time) /\ now # end_time
             ELSE TimeLe(start_time, now) \/ (TimeLe(now, end_time) /\ now # end_time)

\* the body of the loop of is_update_allowed that takes a window it cannot read
\* as open
WindowAdmitsUnreadableOpen(w, now) ==
    IF w.start_time = <<>> \/ w.end_time = <<>> THEN TRUE
    ELSE IF StrpTime(w.start_time).raised \/ StrpTime(w.end_time).raised THEN TRUE
    ELSE LET start_time == StrpTime(w.start_time).time
             end_time == StrpTime(w.end_time).time
         IN  IF TimeLe(start_time, end_time)
             THEN TimeLe(start_time, now) /\ TimeLe(now, end_time)
             ELSE TimeLe(start_time, now) \/ TimeLe(now, end_time)

\* the body of the loop of is_update_allowed: TRUE when it returns True for this
\* window, FALSE when it goes on to the next (empty or unparsable strings included)
WindowAdmits(w, now) ==
    IF w.start_time = <<>> \/ w.end_time = <<>> THEN FALSE
    ELSE IF StrpTime(w.start_time).raised \/ StrpTime(w.end_time).raised THEN FALSE
    ELSE LET start_time == StrpTime(w.start_time).time
             end_time == StrpTime(w.end_time).time
         IN  IF TimeLe(start_time, end_time)
             THEN TimeLe(start_time, now) /\ TimeLe(now, end_time)
             ELSE TimeLe(start_time, now) \/ TimeLe(now, end_time)

\* BackendClient.get_update_windows: ok = FALSE stands for None
GetUpdateWindows(resp) ==
    IF resp.transport THEN [ok |-> FALSE, windows |-> <<>>]
    ELSE IF resp.status = 200
         THEN CASE resp.body = "windows" -> [ok |-> TRUE, windows |-> resp.windows]
                [] resp.body = "no_key"  -> [ok |-> TRUE, windows |-> <<>>]
                [] OTHER                 -> [ok |-> FALSE, windows |-> <<>>]
         ELSE [ok |-> FALSE, windows |-> <<>>]

RECURSIVE AnyWindowAdmits(_, _, _)
AnyWindowAdmits(windows, i, now) ==
    IF i > Len(windows) THEN FALSE
    ELSE IF WindowAdmits(windows[i], now) THEN TRUE
    ELSE AnyWindowAdmits(windows, i + 1, now)

\* is_update_allowed that treats a failed fetch as "not allowed"
IsUpdateAllowedFailClosed(resp, now) ==
    LET windows == GetUpdateWindows(resp)
    IN  IF ~windows.ok THEN FALSE
        ELSE IF windows.windows = <<>> THEN TRUE
        ELSE AnyWindowAdmits(windows.windows, 1, now)

\* BackendClient.is_update_allowed
IsUpdateAllowed(resp, now) ==
    LET windows == GetUpdateWindows(resp)
    IN  IF ~windows.ok THEN TRUE
        ELSE IF windows.windows = <<>> THEN TRUE
        ELSE AnyWindowAdmits(windows.windows, 1, now)

\* an entry of update_windows that is a JSON object
IsObject(w) == DOMAIN w = {"start_time", "end_time"}

\* is_update_allowed, lines 113-138: window.get on an entry that is not an object
\* raises AttributeError, which "except (ValueError, TypeError)" lets through;
\* the loop reaches the entry when no entry before it made it return True
IsUpdateAllowedRaises(resp, now) ==
    LET windows == GetUpdateWindows(resp)
    IN  /\ windows.ok
        /\ \E i \in 1..Len(windows.windows) :
               /\ ~IsObject(windows.windows[i])
               /\ \A j \in 1..(i - 1) :
                      /\ IsObject(windows.windows[j])
                      /\ ~WindowAdmits(windows.windows[j], now)

(* Inputs of the window check *)

MaxWindows == 2

HM(a, b, c, d) == <<a, b, ":", c, d>>

Window(s, e) == [start_time |-> s, end_time |-> e]

\* windows written as HH:MM
WellFormedPool ==
    { Window(HM("2", "3", "0", "0"), HM("0", "6", "0", "0")),
      Window(HM("0", "2", "0", "0"), HM("0", "6", "0", "0")),
      Window(HM("1", "2", "0", "0"), HM("1", "2", "0", "0")) }

\* a window strptime accepts although it is not written as HH:MM
LenientPool ==
    { Window(<<"6", ":", "0">>, HM("0", "1", "5", "9")) }

MalformedPool ==
    { Window(<<>>, HM("0", "6", "0", "0")),
      Window(HM("0", "2", "0", "0"), <<>>),
      Window(HM("2", "4", "0", "0"), HM("0", "6", "0", "0")),
      Window(HM("0", "2", "0", "0"), HM("0", "6", "7", "5")) }

WindowPool == WellFormedPool \cup LenientPool \cup MalformedPool

WindowLists == UNION {[1..n -> WindowPool] : n \in 0..MaxWindows}

TimesOfDay ==
    { <<0, 0, 0>>, <<1, 59, 0>>, <<1, 59, 59>>, <<2, 0, 0>>, <<5, 59, 0>>,
      <<6, 0, 0>>, <<6, 0, 1>>, <<12, 0, 0>>, <<12, 0, 30>>, <<22, 59, 59>>,
      <<23, 0, 0>>, <<23, 30, 0>> }

Resp(transport, status, body, windows) ==
    [transport |-> transport, status |-> status, body |-> body, windows |-> windows]

\* an entry of update_windows that is a string, not an object
NonObject == [text |-> HM("0", "2", "0", "0")]

\* answers of the backend whose update_windows holds such an entry
GateFaults ==
    { Resp(FALSE, 200, "windows", <<NonObject>>),
      Resp(FALSE, 200, "windows",
           <<Window(HM("0", "2", "0", "0"), HM("0", "6", "0", "0")), NonObject>>) }

\* what GET /api/v1/device/config/ can produce
Responses ==
    {Resp(FALSE, 200, "windows", ws) : ws \in WindowLists} \cup
    {Resp(FALSE, 200, b, <<>>) : b \in {"no_key", "null", "not_json"}} \cup
    {Resp(FALSE, s, "not_json", <<>>) : s \in {401, 500}} \cup
    {Resp(TRUE, 0, "not_json", <<>>)}

WInit ==
    /\ wpc = "call"
    /\ wResp \in Responses \cup GateFaults
    /\ wNow \in TimesOfDay
    /\ wResult = FALSE

\* a call of is_update_allowed: the backend answers wResp, the clock reads wNow
WCall ==
    /\ wpc = "call"
    /\ ~IsUpdateAllowedRaises(wResp, wNow)
    /\ wResult' = IsUpdateAllowed(wResp, wNow)
    /\ wpc' = "done"
    /\ UNCHANGED <<wResp, wNow>>
    /\ UNCHANGED notWin

\* a call of is_update_allowed that ends in AttributeError: nothing is returned
WCallRaises ==
    /\ wpc = "call"
    /\ IsUpdateAllowedRaises(wResp, wNow)
    /\ wpc' = "raised"
    /\ UNCHANGED <<wResp, wNow, wResult>>
    /\ UNCHANGED notWin

WNext ==
    \/ WCall
    \/ WCallRaises

-----------------------------------------------------------------------------
(* The operations of the Updater (src/src/updater.py) and of the runtime    *)
(* surface it calls (src/src/docker.py). An operation maps the updater's    *)
(* state s = [versions, file, pending, authDone, log] to the set of its     *)
(* outcomes [s |-> state after, r |-> result]: one outcome per way the      *)
(* external calls it makes can end.                                         *)

DEVICE_IMAGE == "ghcr.io/beachvar/beachvar-device"
AGENT_IMAGE == "ghcr.io/beachvar/beachvar-agent"

AllServices == {"agent", "device", "cloudflared", "ttyd"}

NoData == [k \in Workloads |-> None]

\* an external operation: what was asked of the runtime, registry, backend or disk
Op(kind, target, arg, data, ok) ==
    [op |-> kind, target |-> target, arg |-> arg, data |-> data, ok |-> ok]

Emit(s, o) == [s EXCEPT !.log = Append(@, o)]

Out(s, r) == [s |-> s, r |-> r]

\* Updater._setup_registry_auth
SetupRegistryAuth(s) ==
    {Out(Emit(s, Op("token", {}, "", NoData, FALSE)), FALSE)} \cup
    {Out(Emit(Emit(s, Op("token", {}, "", NoData, TRUE)),
              Op("login", {}, "", NoData, ok)), ok) : ok \in BOOLEAN}

\* Updater._ensure_registry_auth
EnsureRegistryAuth(s) ==
    IF s.authDone THEN {Out(s, TRUE)}
    ELSE {Out([o.s EXCEPT !.authDone = o.r], o.r) : o \in SetupRegistryAuth(s)}

\* docker pull of image:latest; d is the digest the registry serves for the tag
\* when the pull succeeds, None when the pull fails
PullOp(image, how, d) ==
    Op("pull", {image}, how,
       [k \in Workloads |->
           IF image = (IF k = "device" THEN DEVICE_IMAGE ELSE AGENT_IMAGE) THEN d ELSE None],
       d # None)

\* _pull_with_fallback that goes straight to the authenticated pull once the
\* registry login has been set up
PullWithFallbackRemembersAuth(s, image) ==
    IF s.authDone
    THEN {Out(Emit(s, PullOp(image, "auth", d)), d # None) : d \in DigestOpt}
    ELSE {Out(Emit(s, PullOp(image, "noauth", d)), TRUE) : d \in Digests} \cup
         UNION {IF a.r
                THEN {Out(Emit(a.s, PullOp(image, "auth", d)), d # None) : d \in DigestOpt}
                ELSE {Out(a.s, FALSE)}
                : a \in EnsureRegistryAuth(Emit(s, PullOp(image, "noauth", None)))}

\* Updater._pull_with_fallback
PullWithFallback(s, image) ==
    {Out(Emit(s, PullOp(image, "noauth", d)), TRUE) : d \in Digests} \cup
    UNION {IF a.r
           THEN {Out(Emit(a.s, PullOp(image, "auth", d)), d # None) : d \in DigestOpt}
           ELSE {Out(a.s, FALSE)}
           : a \in EnsureRegistryAuth(Emit(s, PullOp(image, "noauth", None)))}

\* Updater._get_remote_digest_via_api over RegistryClient.get_image_digest
GetRemoteDigestViaApi(s, image) ==
    UNION {IF a.r
           THEN {Out(Emit(a.s, Op("digest_api", {image}, d, NoData, d # None)), d)
                 : d \in DigestOpt}
           ELSE {Out(a.s, None)}
           : a \in EnsureRegistryAuth(s)}

\* get_remote_image_digest that asks the cached manifest inspect first
GetRemoteImageDigestCachedFirst(s, image) ==
    {Out(Emit(s, Op("digest_manifest", {image}, d, NoData, TRUE)), d) : d \in Digests} \cup
    {Out(Emit(Emit(s, Op("digest_manifest", {image}, None, NoData, FALSE)),
              Op("digest_buildx", {image}, d, NoData, d # None)), d) : d \in DigestOpt}

\* DockerClient.get_remote_image_digest with _get_remote_image_digest_fallback
GetRemoteImageDigest(s, image) ==
    {Out(Emit(s, Op("digest_buildx", {image}, d, NoData, TRUE)), d) : d \in Digests} \cup
    {Out(Emit(Emit(s, Op("digest_buildx", {image}, None, NoData, FALSE)),
              Op("digest_manifest", {image}, d, NoData, d # None)), d) : d \in DigestOpt}

\* Updater._get_remote_digest_with_auth_fallback
GetRemoteDigestWithAuthFallback(s, image) ==
    UNION {IF Truthy(a.r) THEN {a}
           ELSE UNION {IF Truthy(b.r) THEN {b}
                       ELSE UNION {IF c.r THEN GetRemoteImageDigest(c.s, image)
                                   ELSE {Out(c.s, None)}
                                   : c \in EnsureRegistryAuth(b.s)}
                       : b \in GetRemoteImageDigest(a.s, image)}
           : a \in GetRemoteDigestViaApi(s, image)}

\* check_device_update that does not propose a first install
CheckDeviceUpdateSkipsNull(s) ==
    {Out(o.s, IF ~Truthy(o.r) THEN None
              ELSE IF Get(o.s.versions, "device") # o.r /\ Get(o.s.versions, "device") # None
                   THEN o.r
              ELSE None)
     : o \in GetRemoteDigestWithAuthFallback(s, DEVICE_IMAGE)}

\* Updater.check_device_update
CheckDeviceUpdate(s) ==
    {Out(o.s, IF ~Truthy(o.r) THEN None
              ELSE IF Get(o.s.versions, "device") # o.r THEN o.r
              ELSE None)
     : o \in GetRemoteDigestWithAuthFallback(s, DEVICE_IMAGE)}

\* check_agent_update that proposes whatever it resolved
CheckAgentUpdateAlwaysProposes(s) ==
    {Out(o.s, IF ~Truthy(o.r) THEN None ELSE o.r)
     : o \in GetRemoteDigestWithAuthFallback(s, AGENT_IMAGE)}

\* Updater.check_agent_update
CheckAgentUpdate(s) ==
    {Out(o.s, IF ~Truthy(o.r) THEN None
              ELSE IF Get(o.s.versions, "agent") # o.r THEN o.r
              ELSE None)
     : o \in GetRemoteDigestWithAuthFallback(s, AGENT_IMAGE)}

\* DockerClient.restart_service: compose pull, then up -d --force-recreate
RestartService(s, service) ==
    {Out(Emit(s, Op("compose_pull", {service}, "", NoData, FALSE)), FALSE)} \cup
    {Out(Emit(Emit(s, Op("compose_pull", {service}, "", NoData, TRUE)),
              Op("up", {service}, "force", NoData, ok)), ok) : ok \in BOOLEAN}

\* the --force-recreate flag of DockerClient.compose_up_detached
ForceFlag(force_recreate) == IF force_recreate THEN "force" ELSE ""

\* DockerClient.compose_up_detached: no services means all of them, agent included
ComposeUpDetached(s, services, force_recreate) ==
    {Out(Emit(s, Op("up_detached", IF services # {} THEN services ELSE AllServices,
                    ForceFlag(force_recreate), NoData, ok)), ok) : ok \in BOOLEAN}

\* self.versions as the two entries a reader sees
Entries(v) == [k \in Workloads |-> Get(v, k)]

\* Updater._save_versions
SaveVersionsCall(s) ==
    {Emit([s EXCEPT !.file = SaveVersions(s.file, s.versions, o)],
          Op("save", {}, o, Entries(s.versions), o = "ok")) : o \in SaveOutcomes}

\* BackendClient.report_version: only the given (truthy) versions are sent
ReportVersion(s, device_version, agent_version) ==
    {Emit(s, Op("report", {}, "",
                [k \in Workloads |->
                    IF k = "device"
                    THEN (IF Truthy(device_version) THEN device_version ELSE None)
                    ELSE (IF Truthy(agent_version) THEN agent_version ELSE None)],
                ok)) : ok \in BOOLEAN}

\* update_device that records and reports the version before it restarts the service
UpdateDeviceRecordsFirst(s, new_digest) ==
    UNION {IF ~p.r THEN {Out(p.s, FALSE)}
           ELSE UNION {UNION {{Out(q.s, q.r) : q \in RestartService(w, "device")}
                              : w \in ReportVersion(v, new_digest, None)}
                       : v \in SaveVersionsCall(
                            [p.s EXCEPT !.versions = Put(@, "device", new_digest)])}
           : p \in PullWithFallback(s, DEVICE_IMAGE)}

\* update_device that records the digest only once the backend has taken the report
UpdateDeviceNeedsReport(s, new_digest) ==
    UNION {IF ~p.r THEN {Out(p.s, FALSE)}
           ELSE UNION {IF ~q.r THEN {Out(q.s, FALSE)}
                       ELSE UNION {IF w.log[Len(w.log)].ok
                                   THEN {Out(v, TRUE) : v \in SaveVersionsCall(
                                            [w EXCEPT !.versions = Put(@, "device", new_digest)])}
                                   ELSE {Out(w, FALSE)}
                                   : w \in ReportVersion(q.s, new_digest, None)}
                       : q \in RestartService(p.s, "device")}
           : p \in PullWithFallback(s, DEVICE_IMAGE)}

\* update_device that asks for a recreation of the agent as update_agent does
UpdateDeviceSetsPending(s, new_digest) ==
    UNION {IF ~p.r THEN {Out(p.s, FALSE)}
           ELSE UNION {IF ~q.r THEN {Out(q.s, FALSE)}
                       ELSE UNION {{Out([w EXCEPT !.pending = TRUE], TRUE)
                                    : w \in ReportVersion(v, new_digest, None)}
                                   : v \in SaveVersionsCall(
                                        [q.s EXCEPT !.versions = Put(@, "device", new_digest)])}
                       : q \in RestartService(p.s, "device")}
           : p \in PullWithFallback(s, DEVICE_IMAGE)}

\* Updater.update_device
UpdateDevice(s, new_digest) ==
    UNION {IF ~p.r THEN {Out(p.s, FALSE)}
           ELSE UNION {IF ~q.r THEN {Out(q.s, FALSE)}
                       ELSE UNION {{Out(w, TRUE) : w \in ReportVersion(v, new_digest, None)}
                                   : v \in SaveVersionsCall(
                                        [q.s EXCEPT !.versions = Put(@, "device", new_digest)])}
                       : q \in RestartService(p.s, "device")}
           : p \in PullWithFallback(s, DEVICE_IMAGE)}

\* update_agent that restarts its own service the way update_device does
UpdateAgentRestartsSelf(s, new_digest) ==
    UNION {IF ~p.r THEN {Out(p.s, FALSE)}
           ELSE UNION {IF ~q.r THEN {Out(q.s, FALSE)}
                       ELSE UNION {{Out(w, TRUE) : w \in ReportVersion(v, None, new_digest)}
                                   : v \in SaveVersionsCall(
                                        [q.s EXCEPT !.versions = Put(@, "agent", new_digest)])}
                       : q \in RestartService(p.s, "agent")}
           : p \in PullWithFallback(s, AGENT_IMAGE)}

\* Updater.update_agent
UpdateAgent(s, new_digest) ==
    UNION {IF ~p.r THEN {Out(p.s, FALSE)}
           ELSE UNION {{Out([w EXCEPT !.pending = TRUE], TRUE)
                        : w \in ReportVersion(v, None, new_digest)}
                       : v \in SaveVersionsCall(
                            [p.s EXCEPT !.versions = Put(@, "agent", new_digest)])}
           : p \in PullWithFallback(s, AGENT_IMAGE)}

\* ensure_containers_running, lines 383-392: is_container_running for device,
\* cloudflared and ttyd in turn; down is the set of services reported not running
ContainerChecks(s, down) ==
    Emit(Emit(Emit(s, Op("is_running", {"device"}, "", NoData, "device" \notin down)),
              Op("is_running", {"cloudflared"}, "", NoData, "cloudflared" \notin down)),
         Op("is_running", {"ttyd"}, "", NoData, "ttyd" \notin down))

\* ensure_containers_running that pulls the device image before it recreates
EnsureContainersRunningPullsFirst(s, down) ==
    IF down = {} THEN {Out(ContainerChecks(s, down), TRUE)}
    ELSE UNION {ComposeUpDetached(p.s, down, TRUE)
                : p \in PullWithFallback(ContainerChecks(s, down), DEVICE_IMAGE)}

\* ensure_containers_running that recreates all three services when one is down
EnsureContainersRunningRecreatesAll(s, down) ==
    IF down = {} THEN {Out(ContainerChecks(s, down), TRUE)}
    ELSE ComposeUpDetached(ContainerChecks(s, down), {"device", "cloudflared", "ttyd"}, TRUE)

\* Updater.ensure_containers_running
EnsureContainersRunning(s, down) ==
    IF down = {} THEN {Out(ContainerChecks(s, down), TRUE)}
    ELSE ComposeUpDetached(ContainerChecks(s, down), down, TRUE)

\* sync_config that clears the pending flag whether or not the helper was spawned
SyncConfigClearsAlways(s) ==
    IF s.pending
    THEN {Out([o.s EXCEPT !.pending = FALSE], o.r)
          : o \in ComposeUpDetached(s, {}, TRUE)}
    ELSE ComposeUpDetached(s, {}, FALSE)

\* sync_config that force-recreates on every reconciliation
SyncConfigAlwaysForces(s) ==
    {Out([o.s EXCEPT !.pending = IF o.r THEN FALSE ELSE @], o.r)
     : o \in ComposeUpDetached(s, {}, TRUE)}

\* Updater.sync_config
SyncConfig(s) ==
    IF s.pending
    THEN {Out([o.s EXCEPT !.pending = IF o.r THEN FALSE ELSE @], o.r)
          : o \in ComposeUpDetached(s, {}, TRUE)}
    ELSE ComposeUpDetached(s, {}, FALSE)

\* Updater.bootstrap, lines 318-349: FALSE in r.go when bootstrap returns False here
BootstrapStart(s, device_update, running) ==
    IF Truthy(device_update)
    THEN {Out(u.s, TRUE) : u \in UpdateDevice(s, device_update)}
    ELSE UNION {ComposeUpDetached(p, {}, FALSE)
                : p \in IF running THEN {s}
                        ELSE {q.s : q \in PullWithFallback(s, DEVICE_IMAGE)}}

\* Updater.bootstrap, lines 351-369
BootstrapRecord(s) ==
    UNION {UNION {UNION {ReportVersion(v, d.r, a.r)
                         : v \in SaveVersionsCall(
                              [a.s EXCEPT !.versions =
                                  LET v1 == IF Truthy(d.r) THEN Put(@, "device", d.r) ELSE @
                                  IN  IF Truthy(a.r) THEN Put(v1, "agent", a.r) ELSE v1])}
                  : a \in GetRemoteImageDigest(d.s, AGENT_IMAGE)}
           : d \in GetRemoteImageDigest(s, DEVICE_IMAGE)}

-----------------------------------------------------------------------------
(* Updater.run: the state machine *)

\* UPDATE_CHECK_INTERVAL_SECONDS and CONFIG_SYNC_INTERVAL_SECONDS in units of
\* HEALTH_CHECK_INTERVAL_SECONDS (both are set from the environment), and the
\* longest a tick takes in the same unit
UpdateInterval == 2
SyncInterval == 3
MaxTick == 2

\* the state files a starting agent can find: none, one an agent wrote, one cut short
StoredMappings == [Workloads -> DigestOpt]

InitialFiles == {Missing, FileOf(<<>>)} \cup {FileOf(JsonDump(m)) : m \in StoredMappings}

\* the answers of the backend to the window fetch that run_once is tried against
GateResponses ==
    { Resp(TRUE, 0, "not_json", <<>>),
      Resp(FALSE, 500, "not_json", <<>>),
      Resp(FALSE, 200, "no_key", <<>>),
      Resp(FALSE, 200, "windows", <<Window(HM("0", "2", "0", "0"), HM("0", "6", "0", "0"))>>),
      Resp(FALSE, 200, "windows", <<Window(HM("2", "3", "0", "0"), HM("0", "6", "0", "0"))>>) }

\* what is_update_allowed can return to run_once
GateAnswers == {IsUpdateAllowed(resp, now) : resp \in GateResponses, now \in TimesOfDay}

Cur == [versions |-> versions, file |-> file, pending |-> pending,
        authDone |-> authDone, log |-> <<>>]

IsDigestOp(o) == o.op \in {"digest_api", "digest_buildx", "digest_manifest"}

\* the summary of a step's operations that the run loop keeps: consecutive
\* attempts of one digest resolution count as one "resolve" that carries the
\* digest of the attempt that succeeded
RECURSIVE Summary(_)
Summary(l) ==
    IF l = <<>> THEN <<>>
    ELSE LET o == Head(l)
             rest == Summary(Tail(l))
         IN  IF IsDigestOp(o)
             THEN IF rest # <<>> /\ Head(rest).op = "resolve" /\ Head(rest).target = o.target
                  THEN <<[Head(rest) EXCEPT !.ok = @ \/ o.ok,
                                            !.arg = IF o.ok THEN o.arg ELSE @]>> \o Tail(rest)
                  ELSE <<Op("resolve", o.target, o.arg, NoData, o.ok)>> \o rest
             ELSE <<o>> \o rest

\* no history of pulls is kept
NoHistory == [on |-> FALSE, at |-> [w \in Workloads |-> {}]]

\* the digests pulled so far, after the operations l
PulledAfter(at, l) ==
    [w \in Workloads |->
        at[w] \cup {l[i].data[w] : i \in {j \in 1..Len(l) :
                                         l[j].op = "pull" /\ l[j].data[w] # None}}]

Becomes(s) ==
    /\ versions' = s.versions
    /\ file' = s.file
    /\ pending' = s.pending
    /\ authDone' = s.authDone
    /\ log' = Summary(s.log)
    /\ pulled' = IF pulled.on THEN [pulled EXCEPT !.at = PulledAfter(@, s.log)] ELSE pulled

\* the workloads an operation is about: the image pulled or resolved, the services
\* (re)started, the entries a report carries, the entries a save changes
About(o, before) ==
    CASE o.op = "save" -> {k \in Workloads : o.data[k] # Get(before, k)}
      [] o.op = "report" -> {k \in Workloads : o.data[k] # None}
      [] OTHER -> {k \in Workloads : \E t \in o.target :
                      t \in {k, IF k = "device" THEN DEVICE_IMAGE ELSE AGENT_IMAGE}}

\* how run_once has gone for a workload: what its check found ("unchecked",
\* "unavailable", "current", "proposed") and how its update ended ("none", "failed",
\* "applied")
NoCycle == [k \in Workloads |-> [check |-> "unchecked", update |-> "none"]]

\* what a check found, from the operations it issued and its result
Found(l, r) ==
    IF Truthy(r) THEN "proposed"
    ELSE IF \E i \in 1..Len(l) : IsDigestOp(l[i]) /\ l[i].ok THEN "current"
    ELSE "unavailable"

\* run_once, lines 294 and 300: "if device_digest:" taken whatever the digest is
ShouldUpdateAlways(digest) == TRUE

\* run_once, lines 294 and 300: "if device_digest:", "if agent_digest:"
ShouldUpdate(digest) == Truthy(digest)

\* run_once, lines 295-296 and 301-302 with the flag assigned the last result
FlagOverwritten(flag, ok) == ok

\* run_once, lines 295-296 and 301-302: "if self.update_x(...): updated = True"
Flag(flag, ok) == flag \/ ok

UpdInit ==
    /\ file \in InitialFiles
    /\ \E readable \in BOOLEAN :
          /\ versions = LoadVersions(file, readable).value
          /\ pc = IF LoadVersions(file, readable).raised THEN "crashed" ELSE "bootstrap"
    /\ pending = FALSE
    /\ authDone = FALSE
    /\ log = <<>>
    /\ handler = "init"
    /\ allowed = FALSE
    /\ device_digest = None
    /\ agent_digest = None
    /\ updated = FALSE
    /\ cycle = NoCycle
    /\ cycleStart = NoVersions
    /\ sinceUpdate = 0
    /\ sinceSync = 0
    /\ boot = "none"
    /\ healthy = None

\* run() after bootstrap returned: last_update_check = 0, last_config_sync = now
\* run() that starts its loop with the config sync due
EnterLoopSyncDue ==
    /\ pc' = "health"
    /\ device_digest' = None
    /\ sinceUpdate' = UpdateInterval
    /\ sinceSync' = SyncInterval

EnterLoop ==
    /\ pc' = "health"
    /\ device_digest' = None
    /\ sinceUpdate' = UpdateInterval
    /\ sinceSync' = 0

\* bootstrap whose missing compose file ends the process
Bootstrap_CheckFatal ==
    /\ pc = "bootstrap"
    /\ handler' = "bootstrap"
    /\ \E exists \in BOOLEAN :
          IF ~exists
          THEN /\ pc' = "exited"
               /\ boot' = "no_compose_file"
               /\ UNCHANGED <<versions, file, pending, authDone, log, device_digest,
                              sinceUpdate, sinceSync, pulled>>
          ELSE \E o \in CheckDeviceUpdate(Cur) :
                  /\ Becomes(o.s)
                  /\ device_digest' = o.r
                  /\ pc' = "boot_start"
                  /\ UNCHANGED <<sinceUpdate, sinceSync, boot>>
    /\ UNCHANGED <<allowed, agent_digest, updated, cycle, cycleStart>>
    /\ healthy' = None
    /\ UNCHANGED notUpd

\* bootstrap, lines 318-325: the compose file check and check_device_update
Bootstrap_Check ==
    /\ pc = "bootstrap"
    /\ handler' = "bootstrap"
    /\ \E exists \in BOOLEAN :
          IF ~exists
          THEN /\ EnterLoop
               /\ boot' = "no_compose_file"
               /\ UNCHANGED <<versions, file, pending, authDone, log, pulled>>
          ELSE \E o \in CheckDeviceUpdate(Cur) :
                  /\ Becomes(o.s)
                  /\ device_digest' = o.r
                  /\ pc' = "boot_start"
                  /\ UNCHANGED <<sinceUpdate, sinceSync, boot>>
    /\ UNCHANGED <<allowed, agent_digest, updated, cycle, cycleStart>>
    /\ healthy' = None
    /\ UNCHANGED notUpd

\* bootstrap, lines 326-349: apply the device update, or start the containers
Bootstrap_Start ==
    /\ pc = "boot_start"
    /\ \E running \in BOOLEAN : \E o \in BootstrapStart(Cur, device_digest, running) :
          /\ Becomes(o.s)
          /\ IF o.r THEN pc' = "boot_record" /\ UNCHANGED <<device_digest, sinceUpdate, sinceSync, boot>>
             ELSE EnterLoop /\ boot' = "not_started"
    /\ UNCHANGED <<handler, allowed, agent_digest, updated, cycle, cycleStart>>
    /\ healthy' = None
    /\ UNCHANGED notUpd

\* bootstrap, lines 351-369: resolve both digests, record and report them
Bootstrap_Record ==
    /\ pc = "boot_record"
    /\ \E s \in BootstrapRecord(Cur) : Becomes(s)
    /\ EnterLoop
    /\ boot' = "complete"
    /\ UNCHANGED <<handler, allowed, agent_digest, updated, cycle, cycleStart>>
    /\ healthy' = None
    /\ UNCHANGED notUpd

\* run(), line 459: the fast loop
Tick_Health ==
    /\ pc = "health"
    /\ handler' = "ensure_containers_running"
    /\ \E down \in SUBSET {"device", "cloudflared", "ttyd"} :
          \E o \in EnsureContainersRunning(Cur, down) :
             /\ Becomes(o.s)
             /\ healthy' = Bool(o.r)
    /\ pc' = "slow"
    /\ UNCHANGED <<allowed, device_digest, agent_digest, updated, cycle, cycleStart,
                   sinceUpdate, sinceSync>>
    /\ UNCHANGED boot
    /\ UNCHANGED notUpd

\* run(), line 464 not taken
Tick_NoUpdateCheck ==
    /\ pc = "slow"
    /\ sinceUpdate < UpdateInterval
    /\ pc' = "sync"
    /\ UNCHANGED <<versions, file, pending, authDone, log, handler, allowed, device_digest,
                   agent_digest, updated, cycle, cycleStart, sinceUpdate, sinceSync>>
    /\ UNCHANGED boot
    /\ UNCHANGED healthy
    /\ UNCHANGED pulled
    /\ UNCHANGED notUpd

\* run_once that goes on to its checks although the gate answered False
RunOnce_ClosedChecksAnyway ==
    /\ pc = "slow"
    /\ sinceUpdate >= UpdateInterval
    /\ FALSE \in GateAnswers
    /\ allowed' = FALSE
    /\ handler' = "run_once"
    /\ log' = <<>>
    /\ cycle' = NoCycle
    /\ cycleStart' = versions
    /\ updated' = FALSE
    /\ device_digest' = None
    /\ agent_digest' = None
    /\ pc' = "check_device"
    /\ UNCHANGED <<versions, file, pending, authDone, sinceUpdate, sinceSync>>
    /\ UNCHANGED boot
    /\ healthy' = None
    /\ UNCHANGED pulled
    /\ UNCHANGED notUpd

\* run_once, lines 286-288: outside every window, it returns False
RunOnce_Closed ==
    /\ pc = "slow"
    /\ sinceUpdate >= UpdateInterval
    /\ FALSE \in GateAnswers
    /\ allowed' = FALSE
    /\ handler' = "run_once"
    /\ log' = <<>>
    /\ cycle' = NoCycle
    /\ cycleStart' = versions
    /\ updated' = FALSE
    /\ device_digest' = None
    /\ agent_digest' = None
    /\ pc' = "run_once_return"
    /\ UNCHANGED <<versions, file, pending, authDone, sinceUpdate, sinceSync>>
    /\ UNCHANGED boot
    /\ healthy' = None
    /\ UNCHANGED pulled
    /\ UNCHANGED notUpd

\* run() without its try/except: an exception of run_once ends the process
RunOnce_RaisesFatal ==
    /\ pc = "slow"
    /\ sinceUpdate >= UpdateInterval
    /\ \E resp \in GateFaults, now \in TimesOfDay : IsUpdateAllowedRaises(resp, now)
    /\ handler' = "is_update_allowed"
    /\ log' = <<>>
    /\ pc' = "crashed"
    /\ UNCHANGED <<versions, file, pending, authDone, allowed, device_digest, agent_digest,
                   updated, cycle, cycleStart, sinceUpdate, sinceSync>>
    /\ UNCHANGED boot
    /\ healthy' = None
    /\ UNCHANGED pulled
    /\ UNCHANGED notUpd

\* run_once, line 286, raising out of is_update_allowed, and run(), lines 473-474:
\* the rest of the pass (lines 466-471) is skipped
RunOnce_Raises ==
    /\ pc = "slow"
    /\ sinceUpdate >= UpdateInterval
    /\ \E resp \in GateFaults, now \in TimesOfDay : IsUpdateAllowedRaises(resp, now)
    /\ handler' = "is_update_allowed"
    /\ log' = <<>>
    /\ pc' = "sleep"
    /\ UNCHANGED <<versions, file, pending, authDone, allowed, device_digest, agent_digest,
                   updated, cycle, cycleStart, sinceUpdate, sinceSync>>
    /\ UNCHANGED boot
    /\ healthy' = None
    /\ UNCHANGED pulled
    /\ UNCHANGED notUpd

\* run_once, lines 286-290: updates are allowed
RunOnce_Open ==
    /\ pc = "slow"
    /\ sinceUpdate >= UpdateInterval
    /\ TRUE \in GateAnswers
    /\ allowed' = TRUE
    /\ handler' = "run_once"
    /\ log' = <<>>
    /\ cycle' = NoCycle
    /\ cycleStart' = versions
    /\ updated' = FALSE
    /\ device_digest' = None
    /\ agent_digest' = None
    /\ pc' = "check_device"
    /\ UNCHANGED <<versions, file, pending, authDone, sinceUpdate, sinceSync>>
    /\ UNCHANGED boot
    /\ healthy' = None
    /\ UNCHANGED pulled
    /\ UNCHANGED notUpd

\* run_once, line 293
RunOnce_CheckDevice ==
    /\ pc = "check_device"
    /\ handler' = "check_device_update"
    /\ \E o \in CheckDeviceUpdate(Cur) :
          /\ Becomes(o.s)
          /\ device_digest' = o.r
          /\ cycle' = [cycle EXCEPT !["device"].check = Found(o.s.log, o.r)]
          /\ pc' = IF ShouldUpdate(o.r) THEN "update_device" ELSE "check_agent"
    /\ UNCHANGED <<allowed, agent_digest, updated, cycleStart, sinceUpdate, sinceSync>>
    /\ UNCHANGED boot
    /\ healthy' = None
    /\ UNCHANGED notUpd

\* run_once, lines 294-296
RunOnce_UpdateDevice ==
    /\ pc = "update_device"
    /\ handler' = "update_device"
    /\ \E o \in UpdateDevice(Cur, device_digest) :
          /\ Becomes(o.s)
          /\ updated' = Flag(updated, o.r)
          /\ cycle' = [cycle EXCEPT !["device"].update = IF o.r THEN "applied" ELSE "failed"]
    /\ pc' = "check_agent"
    /\ UNCHANGED <<allowed, device_digest, agent_digest, cycleStart,
                   sinceUpdate, sinceSync>>
    /\ UNCHANGED boot
    /\ healthy' = None
    /\ UNCHANGED notUpd

\* run_once, line 299
RunOnce_CheckAgent ==
    /\ pc = "check_agent"
    /\ handler' = "check_agent_update"
    /\ \E o \in CheckAgentUpdate(Cur) :
          /\ Becomes(o.s)
          /\ agent_digest' = o.r
          /\ cycle' = [cycle EXCEPT !["agent"].check = Found(o.s.log, o.r)]
          /\ pc' = IF ShouldUpdate(o.r) THEN "update_agent" ELSE "run_once_return"
    /\ UNCHANGED <<allowed, device_digest, updated, cycleStart, sinceUpdate, sinceSync>>
    /\ UNCHANGED boot
    /\ healthy' = None
    /\ UNCHANGED notUpd

\* run_once, lines 300-302
RunOnce_UpdateAgent ==
    /\ pc = "update_agent"
    /\ handler' = "update_agent"
    /\ \E o \in UpdateAgent(Cur, agent_digest) :
          /\ Becomes(o.s)
          /\ updated' = Flag(updated, o.r)
          /\ cycle' = [cycle EXCEPT !["agent"].update = IF o.r THEN "applied" ELSE "failed"]
    /\ pc' = "run_once_return"
    /\ UNCHANGED <<allowed, device_digest, agent_digest, cycleStart,
                   sinceUpdate, sinceSync>>
    /\ UNCHANGED boot
    /\ healthy' = None
    /\ UNCHANGED notUpd

\* run_once, line 304 (or 288), and run(), line 466; the locals of run_once end here
RunOnce_Return ==
    /\ pc = "run_once_return"
    /\ sinceUpdate' = 0
    /\ pc' = "sync"
    /\ log' = <<>>
    /\ handler' = "run"
    /\ allowed' = FALSE
    /\ device_digest' = None
    /\ agent_digest' = None
    /\ updated' = FALSE
    /\ cycle' = NoCycle
    /\ cycleStart' = NoVersions
    /\ UNCHANGED <<versions, file, pending, authDone, sinceSync>>
    /\ UNCHANGED boot
    /\ healthy' = None
    /\ UNCHANGED pulled
    /\ UNCHANGED notUpd

\* run(), lines 469-471
Tick_SyncConfig ==
    /\ pc = "sync"
    /\ sinceSync >= SyncInterval
    /\ handler' = "sync_config"
    /\ \E o \in SyncConfig(Cur) : Becomes(o.s)
    /\ sinceSync' = 0
    /\ pc' = "sleep"
    /\ UNCHANGED <<allowed, device_digest, agent_digest, updated, cycle, cycleStart,
                   sinceUpdate>>
    /\ UNCHANGED boot
    /\ healthy' = None
    /\ UNCHANGED notUpd

\* run(), line 469 not taken
Tick_NoSync ==
    /\ pc = "sync"
    /\ sinceSync < SyncInterval
    /\ pc' = "sleep"
    /\ UNCHANGED <<versions, file, pending, authDone, log, handler, allowed, device_digest,
                   agent_digest, updated, cycle, cycleStart, sinceUpdate, sinceSync>>
    /\ UNCHANGED boot
    /\ UNCHANGED healthy
    /\ UNCHANGED pulled
    /\ UNCHANGED notUpd

\* run(), line 476, up to the next reading of the clock at line 461
Tick_Sleep ==
    /\ pc = "sleep"
    /\ \E dt \in 1..MaxTick :
          /\ sinceUpdate' = Min(UpdateInterval, sinceUpdate + dt)
          /\ sinceSync' = Min(SyncInterval, sinceSync + dt)
    /\ pc' = "health"
    /\ log' = <<>>
    /\ handler' = "run"
    /\ boot' = "none"
    /\ UNCHANGED <<versions, file, pending, authDone, allowed, device_digest,
                   agent_digest, updated, cycle, cycleStart>>
    /\ healthy' = None
    /\ UNCHANGED pulled
    /\ UNCHANGED notUpd

UpdNext ==
    \/ Bootstrap_Check
    \/ Bootstrap_Start
    \/ Bootstrap_Record
    \/ Tick_Health
    \/ Tick_NoUpdateCheck
    \/ RunOnce_Closed
    \/ RunOnce_Open
    \/ RunOnce_Raises
    \/ RunOnce_CheckDevice
    \/ RunOnce_UpdateDevice
    \/ RunOnce_CheckAgent
    \/ RunOnce_UpdateAgent
    \/ RunOnce_Return
    \/ Tick_SyncConfig
    \/ Tick_NoSync
    \/ Tick_Sleep

-----------------------------------------------------------------------------
(* RegistryClient: the per-image bearer token cache *)

\* the values of the backend's registry token (a GitHub PAT, never empty:
\* _setup_registry_auth calls set_token only with a truthy token)
Credentials == {"pat-1", "pat-2"}

Images == {DEVICE_IMAGE, AGENT_IMAGE}

\* how many bearer tokens the registry issues in a run
MaxIssued == 3

\* _get_bearer_token returning None
NoBearer == <<>>

\* the n-th bearer token the registry issues, for a request made with credential
Bearer(credential, n) == <<credential, n>>

NoCache == [i \in {} |-> NoBearer]

\* how the GET of https://ghcr.io/token ends
TokenAnswers == {"token", "no_token", "status", "error"}

RegCur == [github_token |-> github_token, cache |-> cache, issued |-> issued]

\* set_token that keeps the cache
SetTokenKeepsCache(r, token) ==
    [r EXCEPT !.github_token = token]

\* RegistryClient.set_token
SetToken(r, token) ==
    [r EXCEPT !.github_token = token, !.cache = NoCache]

\* RegistryClient._get_bearer_token: requested is whether the registry was asked
GetBearerToken(r, image, answer) ==
    IF image \in DOMAIN r.cache
    THEN [r |-> r, result |-> r.cache[image], requested |-> FALSE]
    ELSE IF ~Truthy(r.github_token)
    THEN [r |-> r, result |-> NoBearer, requested |-> FALSE]
    ELSE IF answer = "token"
    THEN [r |-> [r EXCEPT !.cache = Put(@, image, Bearer(r.github_token, r.issued + 1)),
                          !.issued = @ + 1],
          result |-> Bearer(r.github_token, r.issued + 1),
          requested |-> TRUE]
    ELSE [r |-> r, result |-> NoBearer, requested |-> TRUE]

NoCall == [image |-> "", result |-> NoBearer, requested |-> FALSE,
           credential |-> None, first |-> FALSE]

RInit ==
    /\ github_token = None
    /\ cache = NoCache
    /\ issued = 0
    /\ stale = {}
    /\ seen = {}
    /\ rLast = NoCall

\* _setup_registry_auth, line 71: self.registry.set_token(token)
RSetToken ==
    /\ \E token \in Credentials :
          /\ github_token' = SetToken(RegCur, token).github_token
          /\ cache' = SetToken(RegCur, token).cache
    /\ stale' = stale \cup {cache[i] : i \in DOMAIN cache}
    /\ seen' = {}
    /\ rLast' = NoCall
    /\ UNCHANGED issued
    /\ UNCHANGED notReg

\* get_image_digest, line 94: bearer_token = self._get_bearer_token(image)
RGetBearerToken ==
    /\ \E image \in Images,
          answer \in (IF issued < MaxIssued THEN TokenAnswers ELSE TokenAnswers \ {"token"}) :
          LET o == GetBearerToken(RegCur, image, answer)
          IN  /\ cache' = o.r.cache
              /\ issued' = o.r.issued
              /\ rLast' = [image |-> image, result |-> o.result, requested |-> o.requested,
                           credential |-> github_token,
                           first |-> github_token # None /\ image \notin seen]
              /\ seen' = seen \cup {image}
    /\ UNCHANGED <<github_token, stale>>
    /\ UNCHANGED notReg

RNext == RSetToken \/ RGetBearerToken

-----------------------------------------------------------------------------
(* DockerClient._run_compose_via_docker_api: the detached helper. The helper is a
   container of the runtime, created and started over the control socket; it runs
   "docker compose up -d" for the services of its command, one after the other. *)

\* the compose commands compose_up_detached is called with: by bootstrap and
\* sync_config (no services), by ensure_containers_running (the services down)
HelperServices == {{}, {"device"}, {"cloudflared", "ttyd"}}

NoCmd == [services |-> {}, force |-> FALSE]

\* the container beachvar-starter: absent, created or running; left is what its
\* command has still to bring up
NoHelper == [state |-> "absent", services |-> {}, force |-> FALSE, left |-> {}]

\* a request sent to /var/run/docker.sock and the status of its response
\* (NoResponse when recv raised)
NoResponse == 0

Request(req, status) == [req |-> req, status |-> status]

\* the answers of the runtime to DELETE /containers/<name>?force=true
DeleteStatuses == {204, 404, 409, NoResponse}

\* the answers of the runtime to POST /containers/create
CreateStatuses == {201, 409, 500, NoResponse}

\* the answers of the runtime to POST /containers/<name>/start
StartStatuses == {204, 304, 404, 500, NoResponse}

\* line 342 with the response not looked at
CreateAcceptedAlways(status) == TRUE

\* line 342: "201 Created" in response
CreateAccepted(status) == status = 201

\* line 364: "204 No Content" in start_response or "304 Not Modified" in start_response
StartAccepted(status) == status \in {204, 304}

HInit ==
    /\ agent = "running"
    /\ hpc = "idle"
    /\ hCmd = NoCmd
    /\ hImage = None
    /\ hReq = <<>>
    /\ hResult = None
    /\ helper = NoHelper

\* _run_compose_via_docker_api returns result
HReturn(result) ==
    /\ hpc' = "idle"
    /\ hResult' = Bool(result)

\* compose_up_detached, lines 396-409
Helper_Call ==
    /\ agent = "running"
    /\ hpc = "idle"
    /\ \E services \in HelperServices, force_recreate \in BOOLEAN :
          hCmd' = [services |-> IF services # {} THEN services ELSE AllServices,
                   force |-> ForceFlag(force_recreate) = "force"]
    /\ hpc' = "image"
    /\ hImage' = None
    /\ hReq' = <<>>
    /\ hResult' = None
    /\ UNCHANGED <<agent, helper>>
    /\ UNCHANGED notHlp

\* _run_compose_via_docker_api, lines 287-290
Helper_EnsureImage ==
    /\ agent = "running"
    /\ hpc = "image"
    /\ \E available \in BOOLEAN :
          /\ hImage' = Bool(available)
          /\ IF available THEN hpc' = "delete" /\ UNCHANGED hResult
             ELSE HReturn(FALSE)
    /\ UNCHANGED <<agent, hCmd, hReq, helper>>
    /\ UNCHANGED notHlp

\* lines 310-321: force-remove the container of that name; the response is ignored
Helper_Delete ==
    /\ agent = "running"
    /\ hpc = "delete"
    /\ \/ \* connect or sendall raised: line 371
          /\ HReturn(FALSE)
          /\ UNCHANGED <<hReq, helper>>
       \/ \E status \in DeleteStatuses :
             /\ status = 404 <=> helper.state = "absent"
             /\ hReq' = Append(hReq, Request("delete", status))
             /\ helper' = IF status \in {409} THEN helper
                          ELSE IF status = NoResponse /\ helper.state # "absent"
                               THEN helper
                               ELSE NoHelper
             /\ IF status = NoResponse THEN HReturn(FALSE)
                ELSE hpc' = "create" /\ UNCHANGED hResult
    /\ UNCHANGED <<agent, hCmd, hImage>>
    /\ UNCHANGED notHlp

\* lines 323-349: create the helper; parsed is whether json.loads and .get went
\* through on the body of the response
Helper_Create ==
    /\ agent = "running"
    /\ hpc = "create"
    /\ \/ /\ HReturn(FALSE)
          /\ UNCHANGED <<hReq, helper>>
       \/ \E status \in CreateStatuses, parsed \in BOOLEAN :
             /\ status = 409 <=> helper.state # "absent"
             /\ hReq' = Append(hReq, Request("create", status))
             /\ helper' = IF status = 201
                          THEN [state |-> "created", services |-> hCmd.services,
                                force |-> hCmd.force, left |-> hCmd.services]
                          ELSE helper
             /\ IF status # NoResponse /\ CreateAccepted(status) /\ parsed
                THEN hpc' = "start" /\ UNCHANGED hResult
                ELSE HReturn(FALSE)
    /\ UNCHANGED <<agent, hCmd, hImage>>
    /\ UNCHANGED notHlp

\* lines 351-369: start the helper
Helper_Start ==
    /\ agent = "running"
    /\ hpc = "start"
    /\ \/ /\ HReturn(FALSE)
          /\ UNCHANGED <<hReq, helper>>
       \/ \E status \in StartStatuses :
             /\ status = 404 <=> helper.state = "absent"
             /\ hReq' = Append(hReq, Request("start", status))
             /\ \E started \in IF status = NoResponse THEN BOOLEAN
                                ELSE {status \in {204, 304}} :
                   helper' = IF started THEN [helper EXCEPT !.state = "running"] ELSE helper
             /\ HReturn(status # NoResponse /\ StartAccepted(status))
    /\ UNCHANGED <<agent, hCmd, hImage>>
    /\ UNCHANGED notHlp

\* the helper brings up one more service of its command; with --force-recreate
\* (line 396) the container of the service is replaced, and replacing the agent's
\* ends the orchestrator
Helper_Up ==
    /\ helper.state = "running"
    /\ \E service \in helper.left :
          /\ helper' = [helper EXCEPT !.left = @ \ {service}]
          /\ agent' = IF service = "agent" /\ helper.force THEN "killed" ELSE agent
    /\ UNCHANGED <<hpc, hCmd, hImage, hReq, hResult>>
    /\ UNCHANGED notHlp

\* the command of the helper is complete; "AutoRemove": True (line 301)
Helper_Exit ==
    /\ helper.state = "running"
    /\ helper.left = {}
    /\ helper' = NoHelper
    /\ UNCHANGED <<agent, hpc, hCmd, hImage, hReq, hResult>>
    /\ UNCHANGED notHlp

\* the orchestrator is killed (main.py, signal_handler; or the runtime stops it)
Agent_Killed ==
    /\ agent = "running"
    /\ agent' = "killed"
    /\ UNCHANGED <<hpc, hCmd, hImage, hReq, hResult, helper>>
    /\ UNCHANGED notHlp

HNext ==
    \/ Helper_Call
    \/ Helper_EnsureImage
    \/ Helper_Delete
    \/ Helper_Create
    \/ Helper_Start
    \/ Helper_Up
    \/ Helper_Exit
    \/ Agent_Killed

-----------------------------------------------------------------------------
(* Updater.run, lines 451-476, as passes: each handler is one step, known by how
   it ends (returns True or False, or raises) and by what it does to the pending
   flag. ensure_containers_running and sync_config catch every exception
   themselves; run_once raises when is_update_allowed does. *)

LInit ==
    /\ lpc = "health"
    /\ lUpdate = UpdateInterval
    /\ lSync = 0
    /\ lPending = FALSE
    /\ lRan = "none"
    /\ lOut = None
    /\ lLog = <<>>

\* the fields of the Updater that sync_config reads, with the flag as it is
LoopCur == [versions |-> NoVersions, file |-> Missing, pending |-> lPending,
            authDone |-> FALSE, log |-> <<>>]

\* line 459
Loop_Health ==
    /\ lpc = "health"
    /\ \E down \in SUBSET {"device", "cloudflared", "ttyd"} :
          \E o \in EnsureContainersRunning(LoopCur, down) :
             /\ lOut' = Bool(o.r)
             /\ lLog' = o.s.log
    /\ lRan' = "ensure_containers_running"
    /\ lpc' = "slow"
    /\ UNCHANGED <<lUpdate, lSync, lPending>>
    /\ UNCHANGED notLoop

\* line 464 not taken
Loop_NoUpdateCheck ==
    /\ lpc = "slow"
    /\ lUpdate < UpdateInterval
    /\ lRan' = "none"
    /\ lOut' = None
    /\ lLog' = <<>>
    /\ lpc' = "sync"
    /\ UNCHANGED <<lUpdate, lSync, lPending>>
    /\ UNCHANGED notLoop

\* lines 464-466: run_once returns; an agent update it applied sets the flag
Loop_RunOnce ==
    /\ lpc = "slow"
    /\ lUpdate >= UpdateInterval
    /\ \E device_updated, agent_updated \in BOOLEAN :
          /\ lOut' = Bool(Flag(Flag(FALSE, device_updated), agent_updated))
          /\ lPending' = (lPending \/ agent_updated)
    /\ lRan' = "run_once"
    /\ lLog' = <<>>
    /\ lUpdate' = 0
    /\ lpc' = "sync"
    /\ UNCHANGED lSync
    /\ UNCHANGED notLoop

\* line 465 raising, and lines 473-474: the pass goes on to the sleep
Loop_RunOnceRaises ==
    /\ lpc = "slow"
    /\ lUpdate >= UpdateInterval
    /\ \E resp \in GateFaults, now \in TimesOfDay : IsUpdateAllowedRaises(resp, now)
    /\ lRan' = "run_once"
    /\ lOut' = "raised"
    /\ lLog' = <<>>
    /\ lpc' = "sleep"
    /\ UNCHANGED <<lUpdate, lSync, lPending>>
    /\ UNCHANGED notLoop

\* lines 469-471
Loop_SyncConfig ==
    /\ lpc = "sync"
    /\ lSync >= SyncInterval
    /\ \E o \in SyncConfig(LoopCur) :
          /\ lPending' = o.s.pending
          /\ lOut' = Bool(o.r)
          /\ lLog' = o.s.log
    /\ lRan' = "sync_config"
    /\ lSync' = 0
    /\ lpc' = "sleep"
    /\ UNCHANGED lUpdate
    /\ UNCHANGED notLoop

\* line 469 not taken
Loop_NoSync ==
    /\ lpc = "sync"
    /\ lSync < SyncInterval
    /\ lRan' = "none"
    /\ lOut' = None
    /\ lLog' = <<>>
    /\ lpc' = "sleep"
    /\ UNCHANGED <<lUpdate, lSync, lPending>>
    /\ UNCHANGED notLoop

\* line 476, up to the next reading of the clock at line 461
Loop_Sleep ==
    /\ lpc = "sleep"
    /\ \E dt \in 1..MaxTick :
          /\ lUpdate' = Min(UpdateInterval, lUpdate + dt)
          /\ lSync' = Min(SyncInterval, lSync + dt)
    /\ lRan' = "none"
    /\ lOut' = None
    /\ lLog' = <<>>
    /\ lpc' = "health"
    /\ UNCHANGED lPending
    /\ UNCHANGED notLoop

LNext ==
    \/ Loop_Health
    \/ Loop_NoUpdateCheck
    \/ Loop_RunOnce
    \/ Loop_RunOnceRaises
    \/ Loop_SyncConfig
    \/ Loop_NoSync
    \/ Loop_Sleep

\* a sync_config whose detached spawn succeeds
Loop_SyncConfigSpawned == Loop_SyncConfig /\ lOut' = "True"

-----------------------------------------------------------------------------
(* One call of Updater._get_remote_digest_with_auth_fallback at a time, with the
   operations it issues kept one by one *)

DInit ==
    /\ dpc = "idle"
    /\ dImage = None
    /\ dAuth = FALSE
    /\ dOps = <<>>
    /\ dResult = None

\* the Updater the resolution runs in: only _auth_setup_done matters to it
DigCur == [versions |-> NoVersions, file |-> Missing, pending |-> FALSE,
           authDone |-> dAuth, log |-> <<>>]

\* check_device_update, line 182, or check_agent_update, line 204, calling
Digest_Call ==
    /\ dpc \in {"idle", "returned"}
    /\ dImage' \in {DEVICE_IMAGE, AGENT_IMAGE}
    /\ dpc' = "called"
    /\ UNCHANGED <<dAuth, dOps, dResult>>
    /\ UNCHANGED notDig

\* lines 157-173
Digest_Resolve ==
    /\ dpc = "called"
    /\ \E o \in GetRemoteDigestWithAuthFallback(DigCur, dImage) :
          /\ dOps' = o.s.log
          /\ dResult' = o.r
          /\ dAuth' = o.s.authDone
    /\ dpc' = "returned"
    /\ UNCHANGED dImage
    /\ UNCHANGED notDig

DNext ==
    \/ Digest_Call
    \/ Digest_Resolve

-----------------------------------------------------------------------------
(* Specifications: each runs one part and holds the variables of the others *)

UpdIdle ==
    /\ pc = "idle" /\ versions = NoVersions /\ file = Missing /\ pending = FALSE
    /\ authDone = FALSE /\ log = <<>> /\ handler = "init" /\ allowed = FALSE
    /\ device_digest = None /\ agent_digest = None /\ updated = FALSE
    /\ cycle = NoCycle /\ cycleStart = NoVersions /\ sinceUpdate = 0 /\ sinceSync = 0
    /\ boot = "none" /\ healthy = None /\ pulled = NoHistory

WinIdle == wpc = "idle" /\ wResp = Resp(TRUE, 0, "not_json", <<>>) /\ wNow = <<0, 0, 0>>
           /\ wResult = FALSE

StoIdle == spc = "idle" /\ sMap = NoVersions /\ sFile = Missing /\ sSaved = "none"
           /\ sLoaded = [raised |-> FALSE, value |-> NoVersions, read |-> FALSE]

RegIdle ==
    /\ github_token = None /\ cache = NoCache /\ issued = 0 /\ stale = {} /\ seen = {}
    /\ rLast = NoCall

HlpIdle ==
    /\ agent = "running" /\ hpc = "idle" /\ hCmd = NoCmd /\ hImage = None /\ hReq = <<>>
    /\ hResult = None /\ helper = NoHelper

LoopIdle ==
    /\ lpc = "idle" /\ lUpdate = 0 /\ lSync = 0 /\ lPending = FALSE /\ lRan = "none"
    /\ lOut = None /\ lLog = <<>>

DigIdle ==
    /\ dpc = "idle" /\ dImage = None /\ dAuth = FALSE /\ dOps = <<>> /\ dResult = None

\* the state after Updater.__init__
Init == UpdInit /\ pulled = NoHistory /\ WinIdle /\ StoIdle /\ RegIdle /\ HlpIdle /\ LoopIdle /\ DigIdle

Spec == Init /\ [][UpdNext]_vars

InitWindows == WInit /\ UpdIdle /\ StoIdle /\ RegIdle /\ HlpIdle /\ LoopIdle /\ DigIdle

\* run from its start to its first sleep, with the history of pulls kept: the
\* digests found in the store at the start are taken to have been pulled
InitFirstPass ==
    /\ UpdInit
    /\ pulled = [on |-> TRUE, at |-> [w \in Workloads |-> {Get(versions, w)} \ {None}]]
    /\ WinIdle /\ StoIdle /\ RegIdle /\ HlpIdle /\ LoopIdle /\ DigIdle

FirstPassNext ==
    \/ Bootstrap_Check
    \/ Bootstrap_Start
    \/ Bootstrap_Record
    \/ Tick_Health
    \/ RunOnce_Closed
    \/ RunOnce_Open
    \/ RunOnce_Raises
    \/ RunOnce_CheckDevice
    \/ RunOnce_UpdateDevice
    \/ RunOnce_CheckAgent
    \/ RunOnce_UpdateAgent
    \/ RunOnce_Return
    \/ Tick_NoSync

SpecFirstPass == InitFirstPass /\ [][FirstPassNext]_vars

SpecWindows == InitWindows /\ [][WNext]_vars

InitStore == SInit /\ UpdIdle /\ WinIdle /\ RegIdle /\ HlpIdle /\ LoopIdle /\ DigIdle

SpecStore == InitStore /\ [][SNext]_vars

InitRegistry == RInit /\ UpdIdle /\ WinIdle /\ StoIdle /\ HlpIdle /\ LoopIdle /\ DigIdle

SpecRegistry == InitRegistry /\ [][RNext]_vars

InitHelper == HInit /\ UpdIdle /\ WinIdle /\ StoIdle /\ RegIdle /\ LoopIdle /\ DigIdle

SpecHelper == InitHelper /\ [][HNext]_vars

InitLoop == LInit /\ UpdIdle /\ WinIdle /\ StoIdle /\ RegIdle /\ HlpIdle /\ DigIdle

\* the passes of run(), where every call made returns or raises and the sleep
\* ends (a step that can be taken is taken), and where the detached spawn of
\* sync_config does not fail forever
SpecLoop ==
    /\ InitLoop
    /\ [][LNext]_vars
    /\ WF_vars(LNext)
    /\ SF_vars(Loop_SyncConfigSpawned)

InitDigest == DInit /\ UpdIdle /\ WinIdle /\ StoIdle /\ RegIdle /\ HlpIdle /\ LoopIdle

SpecDigest == InitDigest /\ [][DNext]_vars

-----------------------------------------------------------------------------
(* The update cycle: change detection, the two updates, the gate *)

LogIdx == 1..Len(log)

Digest(w) == IF w = "device" THEN device_digest ELSE agent_digest

ImageOf(w) == IF w = "device" THEN DEVICE_IMAGE ELSE AGENT_IMAGE

\* the check of workload w, just done, resolved R: it proposes R when the stored
\* digest is not R and nothing when it is
ProposesOnChange(w) ==
    \A i \in LogIdx :
        (log[i].op = "resolve" /\ log[i].ok) =>
            /\ ImageOf(w) \in log[i].target
            /\ log[i].arg \in Digests
            /\ (Get(versions, w) # log[i].arg) => (Digest(w) = log[i].arg)
            /\ (Get(versions, w) = log[i].arg) => (Digest(w) = None)

\* C1: when the remote digest R of a workload is resolved, the check proposes an
\* update to R exactly when the stored digest L differs from R; a null L (first
\* install) differs from every R, and L = R proposes nothing. It holds for the
\* device check and for the agent check (and for the device check of bootstrap).
C1_ChangeDetection ==
    /\ handler = "check_device_update" => ProposesOnChange("device")
    /\ handler = "check_agent_update" => ProposesOnChange("agent")
    /\ (handler = "bootstrap" /\ pc = "boot_start") => ProposesOnChange("device")

C1_Witness ==
    /\ handler = "check_device_update"
    /\ Get(versions, "device") = None
    /\ \E i \in LogIdx : log[i].op = "resolve" /\ log[i].ok /\ log[i].arg = "sha256:aaa"
    /\ device_digest = "sha256:aaa"
    /\ pc = "update_device"

Effects == {"pull", "compose_pull", "up", "up_detached", "save", "report"}

\* no operation of the step is a pull, a restart, a store write or a report for w
NoEffectOn(w) ==
    \A i \in LogIdx : log[i].op \in Effects => w \notin About(log[i], cycleStart)

\* C2: when every strategy fails to resolve the remote digest of a workload, no
\* update is proposed for it whatever its stored digest is, and for the rest of
\* the cycle nothing is pulled, restarted, written to the store or reported for it.
C2_FailedResolution ==
    \A w \in Workloads :
        cycle[w].check = "unavailable" =>
            /\ Digest(w) = None
            /\ cycle[w].update = "none"
            /\ pc # (IF w = "device" THEN "update_device" ELSE "update_agent")
            /\ NoEffectOn(w)
            /\ Get(versions, w) = Get(cycleStart, w)

C2_Witness ==
    /\ pc = "run_once_return"
    /\ cycle["device"].check = "unavailable"
    /\ Get(cycleStart, "device") = "sha256:aaa"
    /\ cycle["agent"].update = "applied"
    /\ \E i \in LogIdx : log[i].op = "save" /\ log[i].data["device"] = "sha256:aaa"

RunOnceHandlers ==
    {"run_once", "check_device_update", "update_device", "check_agent_update", "update_agent"}

\* C3: the update cycle never starts or recreates the agent's own container: an
\* applied agent update pulls the image, records and reports the digest and sets
\* the pending flag. A forced recreate that covers the agent service is issued
\* only by sync_config, through the detached helper.
C3_NoSynchronousSelfRestart ==
    /\ handler \in RunOnceHandlers =>
          \A i \in LogIdx : ~(log[i].op \in {"up", "up_detached"} /\ "agent" \in log[i].target)
    /\ (handler = "update_agent" /\ cycle["agent"].update = "applied") =>
          /\ pending
          /\ Get(versions, "agent") = agent_digest
          /\ \E i, j, k \in LogIdx :
                /\ i < j /\ j < k
                /\ log[i].op = "pull" /\ log[i].target = {AGENT_IMAGE} /\ log[i].ok
                /\ log[j].op = "save" /\ log[j].data["agent"] = agent_digest
                /\ log[k].op = "report" /\ log[k].data["agent"] = agent_digest
    /\ \A i \in LogIdx :
          (log[i].op \in {"up", "up_detached"} /\ log[i].arg = "force" /\ "agent" \in log[i].target)
              => (log[i].op = "up_detached" /\ handler = "sync_config")

C3_Witness ==
    /\ handler = "update_agent"
    /\ cycle["agent"].update = "applied"
    /\ pending
    /\ agent_digest = "sha256:bbb"
    /\ Get(cycleStart, "agent") = "sha256:aaa"

\* C4: when updates are allowed and a device update to R is detected, and the pull
\* and the restart succeed, the cycle pulls the device image, then restarts the
\* device service, then writes R to the store, then reports R to the backend, in
\* that order; the store then holds R for the device.
C4_DeviceUpdateOrder ==
    /\ ( /\ handler = "update_device"
         /\ \E i \in LogIdx : log[i].op = "pull" /\ log[i].ok
         /\ \E i \in LogIdx : log[i].op = "up" /\ log[i].ok )
       =>
       /\ allowed
       /\ device_digest \in Digests
       /\ device_digest # Get(cycleStart, "device")
       /\ \E p, c, u, w, r \in LogIdx :
             /\ p < c /\ c < u /\ u < w /\ w < r
             /\ log[p].op = "pull" /\ log[p].target = {DEVICE_IMAGE} /\ log[p].ok
             /\ log[c].op = "compose_pull" /\ log[c].target = {"device"} /\ log[c].ok
             /\ log[u].op = "up" /\ log[u].target = {"device"} /\ log[u].arg = "force"
             /\ log[w].op = "save" /\ log[w].data["device"] = device_digest
             /\ log[r].op = "report" /\ log[r].data["device"] = device_digest
             /\ \A i \in LogIdx : log[i].op = "up" => i = u
             /\ \A i \in LogIdx : log[i].op = "save" => i = w
             /\ \A i \in LogIdx : log[i].op = "report" => i = r
             /\ log[w].ok => Get(LoadVersions(file, TRUE).value, "device") = device_digest
       /\ Get(versions, "device") = device_digest
       /\ cycle["device"].update = "applied"
    /\ (pc = "run_once_return" /\ cycle["device"].update = "applied")
          => Get(versions, "device") = device_digest

C4_Witness ==
    /\ handler = "update_device"
    /\ cycle["device"].update = "applied"
    /\ Get(cycleStart, "device") = "sha256:aaa"
    /\ device_digest = "sha256:bbb"
    /\ Get(versions, "device") = "sha256:bbb"
    /\ Get(LoadVersions(file, TRUE).value, "device") = "sha256:bbb"

\* C5: in a cycle the device is checked, and if needed updated, before the agent
\* is checked; the two are independent: the agent is checked (and if needed
\* updated) whether the device update succeeded or failed, a device update that
\* succeeded stays applied when the agent update fails, and run_once returns true
\* exactly when at least one of the two updates succeeded.
C5_DeviceThenAgent ==
    /\ pc \in {"check_device", "update_device"} =>
          cycle["agent"] = [check |-> "unchecked", update |-> "none"]
    /\ (allowed /\ pc \in {"check_agent", "update_agent", "run_once_return"}) =>
          /\ cycle["device"].check # "unchecked"
          /\ (cycle["device"].check = "proposed") = (cycle["device"].update # "none")
    /\ (allowed /\ pc = "run_once_return") =>
          /\ cycle["agent"].check # "unchecked"
          /\ (cycle["agent"].check = "proposed") = (cycle["agent"].update # "none")
          /\ cycle["device"].update = "applied" => Get(versions, "device") = device_digest
          /\ updated = (cycle["device"].update = "applied" \/ cycle["agent"].update = "applied")

C5_Witness ==
    /\ pc = "run_once_return"
    /\ cycle["device"].update = "applied"
    /\ cycle["agent"].update = "failed"
    /\ updated
    /\ Get(versions, "device") = device_digest
    /\ Get(versions, "agent") = Get(cycleStart, "agent")

\* C6: when is_update_allowed answers false, run_once returns false at once: it
\* resolves no digest, pulls no image, restarts no service, leaves the store and
\* the pending flag as they are and reports nothing.
C6_ClosedGate ==
    /\ [][(handler' = "run_once" /\ ~allowed') =>
             /\ pc' = "run_once_return"
             /\ ~updated'
             /\ log' = <<>>
             /\ UNCHANGED <<versions, file, pending, authDone>>]_vars
    /\ [][(pc = "run_once_return" /\ ~allowed) =>
             /\ pc' = "sync"
             /\ log' = <<>>
             /\ UNCHANGED <<versions, file, pending, authDone>>]_vars

C6_Witness ==
    /\ pc = "run_once_return"
    /\ handler = "run_once"
    /\ ~allowed
    /\ ~updated
    /\ pending
    /\ Get(versions, "agent") = "sha256:bbb"

-----------------------------------------------------------------------------
(* The update windows *)

\* the second of the day a time of the pool written as HH:MM names
SecondOfDay(hhmm) ==
    CASE hhmm = HM("0", "1", "5", "9") -> 1 * 3600 + 59 * 60
      [] hhmm = HM("0", "2", "0", "0") -> 2 * 3600
      [] hhmm = HM("0", "6", "0", "0") -> 6 * 3600
      [] hhmm = HM("1", "2", "0", "0") -> 12 * 3600
      [] hhmm = HM("2", "3", "0", "0") -> 23 * 3600

\* containment as the windows are documented: inclusive at both ends, and a
\* window whose start is after its end runs over midnight
Contains(w, t) ==
    LET start == SecondOfDay(w.start_time)
        end == SecondOfDay(w.end_time)
        now == t[1] * 3600 + t[2] * 60 + t[3]
    IN  IF start <= end THEN start <= now /\ now <= end
        ELSE now >= start \/ now <= end

WindowsFetched ==
    /\ ~wResp.transport
    /\ wResp.status = 200
    /\ wResp.body = "windows"

\* C7: with a non-empty list of well-formed windows, updates are allowed exactly
\* when the local time of day lies in at least one window: start <= now <= end
\* when start <= end, and now >= start or now <= end when start > end. 23:00-06:00
\* holds 23:30, 00:00 and 05:59 and not 12:00; 02:00-06:00 holds 02:00 and 06:00
\* and not 01:59.
C7_WindowContainment ==
    ( /\ wpc = "done"
      /\ WindowsFetched
      /\ wResp.windows # <<>>
      /\ \A i \in 1..Len(wResp.windows) : wResp.windows[i] \in WellFormedPool )
    => (wResult = \E i \in 1..Len(wResp.windows) : Contains(wResp.windows[i], wNow))

C7_Witness ==
    /\ wpc = "done"
    /\ WindowsFetched
    /\ wResp.windows = <<Window(HM("0", "2", "0", "0"), HM("0", "6", "0", "0")),
                         Window(HM("2", "3", "0", "0"), HM("0", "6", "0", "0"))>>
    /\ wNow = <<6, 0, 0>>
    /\ wResult

\* C8: when the list of windows is empty, or the fetch failed (an answer other
\* than 200, or a transport error), updates are allowed at every time of day.
C8_NoWindowsAllowed ==
    ( /\ wpc = "done"
      /\ \/ wResp.transport
         \/ wResp.status # 200
         \/ (WindowsFetched /\ wResp.windows = <<>>) )
    => wResult

C8_Witness ==
    /\ wpc = "done"
    /\ ~wResp.transport
    /\ wResp.status = 500
    /\ wNow = <<12, 0, 30>>
    /\ wResult

-----------------------------------------------------------------------------
(* The Version Store *)

\* C9: a mapping of workloads to digests (null included) written to the Version
\* Store and read back from the file is the same mapping.
C9_RoundTrip ==
    (spc = "loaded" /\ sSaved = "ok" /\ sLoaded.read)
        => (~sLoaded.raised /\ sLoaded.value = sMap)

C9_Witness ==
    /\ spc = "loaded"
    /\ sSaved = "ok"
    /\ sLoaded.read
    /\ sMap = [k \in Workloads |-> IF k = "device" THEN "sha256:aaa" ELSE None]
    /\ sLoaded.value = sMap
    /\ sFile.exists

\* C10: loading the Version Store never raises, and when the file is missing,
\* cannot be read or cannot be parsed the load yields {device: null, agent: null}.
C10_LoadDefaults ==
    spc = "loaded" =>
        /\ ~sLoaded.raised
        /\ (~sFile.exists \/ ~sLoaded.read \/ sFile \in CutFiles \/ sSaved = "cut")
              => sLoaded.value = NoVersions

C10_Witness ==
    /\ spc = "loaded"
    /\ sLoaded.read
    /\ sFile = FileOf(<<LBrace, StrTok("device"), Colon>>)
    /\ sLoaded.value = NoVersions
    /\ ~sLoaded.raised

-----------------------------------------------------------------------------
(* The credential cache *)

\* C11: after set_token no bearer token that was cached before the call is
\* returned by a later resolution or kept in the cache, for any image; the first
\* resolution of an image after set_token asks the registry for a bearer token
\* with the new credential, and a token it returns was issued for that credential.
C11_CacheInvalidation ==
    /\ rLast.result \notin stale
    /\ \A i \in DOMAIN cache : cache[i] \notin stale
    /\ rLast.first => (rLast.requested /\ rLast.credential = github_token)
    /\ (rLast.first /\ rLast.result # NoBearer) => rLast.result[1] = github_token

C11_Witness ==
    /\ \E t \in stale : t[1] = "pat-1"
    /\ github_token = "pat-2"
    /\ rLast.first
    /\ rLast.requested
    /\ rLast.result # NoBearer
    /\ \E i \in DOMAIN cache : cache[i] = rLast.result

-----------------------------------------------------------------------------
(* Bootstrap failure and the loops of run *)

LoopPcs == {"health", "slow", "check_device", "update_device", "check_agent",
            "update_agent", "run_once_return", "sync", "sleep"}

\* C12: when the compose file is missing, bootstrap returns False without doing
\* anything, the process goes on into the run loop, and every pass of the loop,
\* the first one included, begins with ensure_containers_running; the step after
\* the sleep of a pass is the beginning of the next pass.
C12_BootstrapFailureNotFatal ==
    /\ [][(pc = "bootstrap" /\ boot' = "no_compose_file") =>
             /\ pc' = "health"
             /\ log' = <<>>
             /\ UNCHANGED <<versions, file, pending, authDone>>]_vars
    /\ [][boot' # "none" => pc' \in LoopPcs]_vars
    /\ [][pc = "health" => (handler' = "ensure_containers_running" /\ pc' = "slow")]_vars
    /\ [][pc = "sleep" => pc' = "health"]_vars

C12_Witness ==
    /\ boot = "no_compose_file"
    /\ pc = "slow"
    /\ handler = "ensure_containers_running"
    /\ \E i \in LogIdx : log[i].op = "up_detached" /\ ~log[i].ok

\* a step of the run loop that is a call of sync_config
SyncStep == pc = "sync" /\ handler' = "sync_config"

Down ==
    {svc \in {"device", "cloudflared", "ttyd"} :
        \E i \in LogIdx : log[i].op = "is_running" /\ log[i].target = {svc} /\ ~log[i].ok}

\* C15: ensure_containers_running checks device, cloudflared and ttyd; when all
\* three run it returns True and spawns no helper; otherwise it issues one
\* force-recreate through the detached helper, of exactly the services found not
\* running: never the agent and never a service found running.
C15_FastLoop ==
    handler = "ensure_containers_running" =>
        /\ Len(log) >= 3
        /\ log[1].op = "is_running" /\ log[1].target = {"device"}
        /\ log[2].op = "is_running" /\ log[2].target = {"cloudflared"}
        /\ log[3].op = "is_running" /\ log[3].target = {"ttyd"}
        /\ Down = {} => (Len(log) = 3 /\ healthy = "True")
        /\ Down # {} =>
              /\ Len(log) = 4
              /\ log[4].op = "up_detached"
              /\ log[4].arg = "force"
              /\ log[4].target = Down
              /\ "agent" \notin log[4].target
              /\ healthy = Bool(log[4].ok)

C15_Witness ==
    /\ handler = "ensure_containers_running"
    /\ Down = {"cloudflared", "ttyd"}
    /\ Len(log) = 4
    /\ log[4].target = {"cloudflared", "ttyd"}
    /\ log[1].ok
    /\ healthy = "True"

\* C16: ensure_containers_running calls neither the backend nor the registry (it
\* asks only the container runtime) and leaves the Version Store, the registry
\* credentials and the pending flag as they are; it is the step every pass of the
\* loop begins with, whatever the backend has answered before.
C16_FastLoopFrame ==
    [][pc = "health" =>
          /\ handler' = "ensure_containers_running"
          /\ \A i \in 1..Len(log') : log'[i].op \in {"is_running", "up_detached"}
          /\ UNCHANGED <<versions, file, pending, authDone>>]_vars

C16_Witness ==
    /\ handler = "ensure_containers_running"
    /\ pc = "slow"
    /\ "device" \in Down
    /\ pending
    /\ ~authDone
    /\ Get(versions, "agent") = "sha256:aaa"

-----------------------------------------------------------------------------
(* The pull with fallback. A step of the run loop calls _pull_with_fallback at
   most once, so the pulls in log are those of one invocation. *)

Pulls(how) == {i \in LogIdx : log[i].op = "pull" /\ log[i].arg = how}

\* C17: every invocation of _pull_with_fallback begins with an unauthenticated
\* pull, also when an earlier invocation needed the login; an authenticated pull
\* is attempted only after the unauthenticated pull of the same invocation
\* failed, and at most once.
C17_PullFallbackOrder ==
    /\ Cardinality(Pulls("noauth")) <= 1
    /\ Cardinality(Pulls("auth")) <= 1
    /\ \A j \in Pulls("auth") : \E i \in Pulls("noauth") : i < j /\ ~log[i].ok
    /\ \A i \in Pulls("noauth") : log[i].ok => Pulls("auth") = {}

C17_Witness ==
    /\ handler = "update_agent"
    /\ Len(log) >= 2
    /\ log[1].op = "pull" /\ log[1].arg = "noauth" /\ ~log[1].ok
    /\ log[2].op = "pull" /\ log[2].arg = "auth" /\ log[2].ok
    /\ authDone

\* C18: in every invocation of _pull_with_fallback whose unauthenticated pull
\* fails and that goes on to an authenticated pull, a token is fetched from the
\* backend and the runtime is logged in with it after the failed pull and before
\* the authenticated one.
C18_FreshTokenBeforeAuthPull ==
    \A i \in Pulls("noauth") : \A j \in Pulls("auth") :
        \E t, l \in LogIdx :
            /\ i < t /\ t < l /\ l < j
            /\ log[t].op = "token" /\ log[t].ok
            /\ log[l].op = "login" /\ log[l].ok

-----------------------------------------------------------------------------
(* The Version Store and the update applications. Bootstrap is one step of the
   Orchestrator: when its last part (lines 351-369) runs, log still holds the
   operations of its middle part (lines 326-349). *)

\* the update application of workload w succeeded among the operations l: its
\* image was pulled and, for the device, the device service was then (re)started
AppliedIn(w, l) ==
    \E i \in 1..Len(l) :
        /\ l[i].op = "pull" /\ l[i].target = {ImageOf(w)} /\ l[i].ok
        /\ w = "device" =>
              \E j \in (i + 1)..Len(l) :
                 /\ l[j].op \in {"up", "up_detached"}
                 /\ "device" \in l[j].target
                 /\ l[j].ok

\* the operations of the step being taken
StepOps == IF pc = "boot_record" THEN log \o log' ELSE log'

\* C19: over bootstrap, update-check, reconciliation and fast-loop steps, the
\* stored digest of a workload changes only in a step in which the update
\* application of that workload (the pull of its image, plus the restart for the
\* device) succeeded.
C19_StoreMutatedOnlyAfterApplication ==
    [][\A w \in Workloads :
          Get(versions', w) # Get(versions, w) => AppliedIn(w, StepOps)]_vars

\* C20: a digest D stored for a workload was served by the registry for that
\* workload's image at an earlier successful pull of it.
C20_StoredDigestWasPulled ==
    \A w \in Workloads :
        Get(versions, w) # None => Get(versions, w) \in pulled.at[w]

-----------------------------------------------------------------------------
(* The detached helper *)

\* C21: a helper for a force-recreate that has been created and started carries
\* its compose command out to completion, whatever happens to the orchestrator
\* afterwards: while services of its command are left it keeps running, and it
\* is gone only once none is left.
C21_HelperCompletes ==
    [][(helper.state = "running" /\ helper.force) =>
          \/ /\ helper'.state = "running"
             /\ helper'.services = helper.services
             /\ helper'.left \subseteq helper.left
          \/ helper.left = {} /\ helper' = NoHelper]_vars

\* the requests of the spawn under way or made last, by kind
Sent(req) == {i \in 1..Len(hReq) : hReq[i].req = req}

\* C30: a spawn sends its requests in the order force-remove, create, start; the
\* start is sent only if the create returned 201; the spawn reports success if
\* and only if the create returned 201 and the start returned 204 or 304; and
\* with the helper image unavailable nothing is sent to the control socket.
C30_SpawnProtocol ==
    /\ Len(hReq) <= 3
    /\ \A i \in 1..Len(hReq) : hReq[i].req = <<"delete", "create", "start">>[i]
    /\ \A i \in Sent("start") : hReq[i - 1].status = 201
    /\ hpc = "start" => hReq[2].status = 201
    /\ hResult # None =>
          (hResult = "True" <=> /\ Sent("start") # {}
                       /\ hReq[2].status = 201
                       /\ hReq[3].status \in {204, 304})
    /\ hImage # "True" => hReq = <<>>

C30_Witness ==
    /\ hResult = "True"
    /\ Len(hReq) = 3
    /\ hReq[1].status = 204
    /\ hReq[3].status = 304
    /\ helper.state = "running"
    /\ hCmd.force

-----------------------------------------------------------------------------
(* Failures inside a pass of the loop *)

\* C22: no failure inside a pass is fatal and nothing is retried inside a cycle:
\* once in the loop the process stays in it; a health check or a config sync that
\* failed and an update check that raised are followed by the rest of the pass or
\* by the sleep, and the sleep by the next pass; and inside one update-check
\* cycle update_device and update_agent are each attempted at most once.
C22_NoCycleFailureFatal ==
    /\ [][(pc \in LoopPcs) => (pc' \in LoopPcs)]_vars
    /\ [][(pc = "health" /\ healthy' = "False") => pc' = "slow"]_vars
    /\ [][handler' = "is_update_allowed" =>
             (pc' = "sleep" /\ UNCHANGED <<versions, file, pending, authDone>>)]_vars
    /\ [][(SyncStep /\ ~log'[1].ok) => pc' = "sleep"]_vars
    /\ [][pc = "sleep" => (pc' = "health" /\ log' = <<>>)]_vars
    /\ [][pc = "update_device" =>
             /\ cycle["device"].update = "none"
             /\ cycle'["device"].update # "none"
             /\ pc' = "check_agent"]_vars
    /\ [][pc = "update_agent" =>
             /\ cycle["agent"].update = "none"
             /\ cycle'["agent"].update # "none"
             /\ pc' = "run_once_return"]_vars

C22_Witness ==
    /\ pc = "sleep"
    /\ handler = "is_update_allowed"
    /\ sinceUpdate >= UpdateInterval
    /\ sinceSync >= SyncInterval
    /\ pending

-----------------------------------------------------------------------------
(* The maintenance window and the update applications *)

\* the step being taken is a call of update_device or update_agent by run_once
UpdateInCycle == pc \in {"update_device", "update_agent"}

\* the step being taken is bootstrap applying the device update it found
UpdateInBootstrap == pc = "boot_start" /\ Truthy(device_digest)

\* C23 as stated: over every run, bootstrap included, an update application is
\* started only in a cycle whose is_update_allowed check returned true.
C23_UpdatesOnlyInWindow ==
    [][(UpdateInCycle \/ UpdateInBootstrap) => allowed]_vars

\* C23, amended: in the run loop an update application is started only in an
\* update-check cycle whose is_update_allowed check returned true; bootstrap
\* applies the device update it finds without asking is_update_allowed.
C23_UpdatesInLoopOnlyInWindow ==
    /\ [][UpdateInCycle => (allowed /\ handler' \in {"update_device", "update_agent"})]_vars
    /\ [][(pc \in LoopPcs /\ \E i \in 1..Len(log') : log'[i].op = "pull") =>
             (allowed /\ UpdateInCycle)]_vars
    /\ [][UpdateInBootstrap =>
             /\ ~allowed
             /\ handler' = "bootstrap"
             /\ log'[1].op = "pull"
             /\ log'[1].target = {DEVICE_IMAGE}]_vars

C23_Witness ==
    /\ pc = "check_agent"
    /\ handler = "update_device"
    /\ allowed
    /\ boot = "complete"
    /\ log[1].op = "pull"
    /\ log[1].ok
    /\ Get(versions, "device") = device_digest

-----------------------------------------------------------------------------
(* update_agent and update_device, step by step *)

\* the operations of kind op among l
OpsOf(l, op) == {i \in 1..Len(l) : l[i].op = op}

\* the pull of image went through among the operations l
PullOk(l, image) == \E i \in OpsOf(l, "pull") : l[i].target = {image} /\ l[i].ok

\* C24: update_agent stores the new agent digest (in self.versions and, when the
\* write goes through, in the state file), reports it and sets the pending flag
\* if and only if the pull of the agent image succeeded, and then returns true;
\* when the pull fails, with its authenticated fallback, it returns false, leaves
\* the store and the flag as they are and sends no report.
C24_UpdateAgentIffPulled ==
    [][pc = "update_agent" =>
          IF PullOk(log', AGENT_IMAGE)
          THEN /\ cycle'["agent"].update = "applied"
               /\ updated'
               /\ pending'
               /\ Get(versions', "agent") = agent_digest
               /\ \E i \in OpsOf(log', "save") : \E j \in OpsOf(log', "report") :
                     /\ i < j
                     /\ log'[i].data["agent"] = agent_digest
                     /\ log'[j].data = [device |-> None, agent |-> agent_digest]
                     /\ log'[i].ok => Get(LoadVersions(file', TRUE).value, "agent") = agent_digest
          ELSE /\ cycle'["agent"].update = "failed"
               /\ updated' = updated
               /\ UNCHANGED <<versions, file, pending>>
               /\ OpsOf(log', "save") = {}
               /\ OpsOf(log', "report") = {}]_vars

C24_Witness ==
    /\ handler = "update_agent"
    /\ cycle["agent"].update = "failed"
    /\ Cardinality(OpsOf(log, "pull")) = 2
    /\ pending
    /\ agent_digest = "sha256:bbb"
    /\ Get(versions, "agent") = "sha256:aaa"

\* the device update went through among the operations l: pull, then restart
DeviceApplied(l) ==
    /\ PullOk(l, DEVICE_IMAGE)
    /\ \E i \in OpsOf(l, "up") : l[i].target = {"device"} /\ l[i].ok

\* update_device has been called, by run_once or by bootstrap, and has failed
DeviceUpdateFailed ==
    \/ cycle["device"].update = "failed"
    \/ pc = "boot_record" /\ Truthy(device_digest) /\ ~DeviceApplied(log)

\* what a call of update_device that fails leaves behind
FailedDeviceUpdateStep ==
    (UpdateInBootstrap \/ pc = "update_device") =>
        /\ ~PullOk(log', DEVICE_IMAGE) =>
              (OpsOf(log', "compose_pull") = {} /\ OpsOf(log', "up") = {})
        /\ ~DeviceApplied(log') =>
              /\ UNCHANGED <<versions, file, pending>>
              /\ OpsOf(log', "save") = {}
              /\ OpsOf(log', "report") = {}
              /\ pc = "update_device" =>
                    (cycle'["device"].update = "failed" /\ updated' = updated)

\* C25: a device update that fails changes nothing: after a failed pull the
\* restart is not attempted; after a failed pull or restart the stored device
\* digest is as before, nothing is reported and update_device returns false; the
\* store still differs from the proposed digest afterwards, so that the next
\* update check proposes the same update again.
C25_FailedDeviceUpdate ==
    [][/\ FailedDeviceUpdateStep
       /\ DeviceUpdateFailed =>
             /\ Get(versions, "device") # device_digest
             /\ Get(versions', "device") = Get(versions, "device")]_vars

-----------------------------------------------------------------------------
(* The passes of run(): the pending self-update and the three cadences *)

\* the last step issued a force-recreate that covers the agent
LoopForced ==
    \E i \in 1..Len(lLog) :
        lLog[i].op = "up_detached" /\ lLog[i].arg = "force" /\ "agent" \in lLog[i].target

\* C26: once set, the pending flag stays set until a sync_config issues the
\* force-recreate and its spawn succeeds; and, the process running on and the
\* detached spawn not failing forever, whenever the flag is set a force-recreate
\* covering the agent is eventually issued and the flag cleared.
C26_PendingEventuallyApplied ==
    /\ [][(lPending /\ ~lPending') =>
             (lRan' = "sync_config" /\ LoopForced' /\ lOut' = "True")]_vars
    /\ lPending ~> (lRan = "sync_config" /\ LoopForced /\ ~lPending)

\* C28: every call returning and time advancing, the health check, the update
\* check and the config sync are each run again and again, however the other two
\* end.
C28_NoStarvation ==
    /\ []<>(lRan = "ensure_containers_running")
    /\ []<>(lRan = "run_once")
    /\ []<>(lRan = "sync_config")

\* a step of a pass of run() in the order of lines 459-476: the health check
\* first, the update check exactly when it is due, and then, on every pass, the
\* config sync exactly when it is due
InOrder ==
    /\ (pc = "health") => (pc' = "slow" /\ handler' = "ensure_containers_running")
    /\ (pc' = "slow") => (pc = "health")
    /\ (pc = "slow") => ((sinceUpdate >= UpdateInterval) <=> (pc' # "sync"))
    /\ (pc = "sync") =>
          (pc' = "sleep" /\ ((sinceSync >= SyncInterval) <=> (handler' = "sync_config")))

\* C27: every tick runs the health check first, then the update check if its
\* interval has elapsed, then the config sync if its interval has elapsed, one
\* after the other and each at most once: no pass reaches the sleep with the
\* config sync due and not run.
C27_OneSequentialLoop ==
    [][InOrder /\ ((pc' = "sleep" /\ pc # "sleep" /\ sinceSync >= SyncInterval) =>
                      (handler' = "sync_config"))]_vars

-----------------------------------------------------------------------------
(* The digest resolution as a chain of strategies *)

\* the place of a strategy in the order of
\* _get_remote_digest_with_auth_fallback and get_remote_image_digest
Rank(op) == IF op = "digest_api" THEN 1 ELSE IF op = "digest_buildx" THEN 2 ELSE 3

\* before its i-th operation the resolution has seen the strategy of rank k fail:
\* an attempt of it that gave no digest or, for the registry API, a registry
\* login that could not be set up
FailedBefore(k, i) ==
    \E j \in 1..(i - 1) :
        /\ ~dOps[j].ok
        /\ \/ IsDigestOp(dOps[j]) /\ Rank(dOps[j].op) = k
           \/ k = 1 /\ dOps[j].op \in {"token", "login"}

\* C29: the digest returned is that of the first attempt that succeeds, and the
\* resolution ends there; the registry API is asked first, the no-cache
\* inspection only after the API failed, the cached manifest inspection only
\* after both failed; and None is returned exactly when no attempt gave a
\* digest, every strategy having failed.
C29_PriorityChain ==
    (dpc = "returned") =>
       /\ \A i \in 1..Len(dOps) :
             IsDigestOp(dOps[i]) =>
                /\ dOps[i].ok => (i = Len(dOps) /\ dResult = dOps[i].arg)
                /\ \A k \in 1..(Rank(dOps[i].op) - 1) : FailedBefore(k, i)
       /\ (dResult = None) <=> (\A i \in 1..Len(dOps) : IsDigestOp(dOps[i]) => ~dOps[i].ok)
       /\ (dResult = None) => (\A k \in 1..3 : FailedBefore(k, Len(dOps) + 1))

\* the cached manifest inspection gave the digest, after the API and the no-cache
\* inspection had been asked and had failed
C29_Witness ==
    /\ dpc = "returned"
    /\ dResult \in Digests
    /\ dOps[Len(dOps)].op = "digest_manifest"
    /\ \E j \in 1..Len(dOps) : dOps[j].op = "digest_api" /\ ~dOps[j].ok
    /\ \E j \in 1..Len(dOps) : dOps[j].op = "digest_buildx" /\ ~dOps[j].ok

-----------------------------------------------------------------------------
(* Windows that cannot be read *)

\* C36: a window whose start_time or end_time is missing or empty, or does not
\* parse as a time, never admits: a fetched, non-empty list of such windows alone
\* allows no update at any time of day, and mixed with well-formed windows they
\* leave the answer to the well-formed ones.
C36_MalformedSkipped ==
    ( /\ wpc = "done"
      /\ WindowsFetched
      /\ wResp.windows # <<>> )
    => /\ (\A i \in 1..Len(wResp.windows) : wResp.windows[i] \in MalformedPool) => ~wResult
       /\ (\A i \in 1..Len(wResp.windows) :
              wResp.windows[i] \in MalformedPool \cup WellFormedPool)
          => (wResult = \E i \in 1..Len(wResp.windows) :
                           /\ wResp.windows[i] \in WellFormedPool
                           /\ Contains(wResp.windows[i], wNow))

\* 05:59 with two windows that would hold it were they read leniently
C36_Witness ==
    /\ wpc = "done"
    /\ WindowsFetched
    /\ wResp.windows = <<Window(HM("0", "2", "0", "0"), HM("0", "6", "7", "5")),
                         Window(HM("0", "2", "0", "0"), <<>>)>>
    /\ wNow = <<5, 59, 0>>
    /\ ~wResult

-----------------------------------------------------------------------------
(* Failures of the components *)

\* C32: whatever the backend answers (a status other than 200, a transport error
\* or timeout, a body that is not JSON, a payload of an unexpected shape), a call
\* of is_update_allowed ends by returning a boolean: it never raises into
\* run_once.
C32_IsUpdateAllowedReturns ==
    (wpc # "call") => (wpc = "done" /\ wResult \in BOOLEAN)

-----------------------------------------------------------------------------
(* The Version Store keeps what it holds *)

\* the digest the Version Store holds for a workload: what loading the file gives
StoredIn(f, w) ==
    IF f.exists /\ ~JsonLoad(f.toks).raised THEN Get(JsonLoad(f.toks).value, w) ELSE None

\* no step takes a digest of self.versions away
KeptInMemory ==
    \A w \in Workloads : Truthy(Get(versions, w)) => Truthy(Get(versions', w))

\* no step takes a digest of the file away
KeptOnDisk ==
    \A w \in Workloads : Truthy(StoredIn(file, w)) => Truthy(StoredIn(file', w))

\* C33: once the Version Store holds a digest for a workload, every step of the
\* orchestrator (bootstrap whose resolution after the action failed included)
\* leaves a digest there, the same or another: in self.versions and in the file.
C33_StoredDigestNeverDeleted ==
    [][KeptInMemory /\ KeptOnDisk]_vars

-----------------------------------------------------------------------------
(* A later spawn and the helper of an earlier one *)

\* C34: a spawn of the orchestrator (from the fast loop, the reconciliation or
\* bootstrap, all under the name beachvar-starter) never removes a helper that is
\* running and has services of its compose command left to bring up: the step
\* taken while the spawn is at its force-remove request leaves that helper
\* running.
C34_NoSpawnCutsHelperShort ==
    [][(hpc = "delete" /\ helper.state = "running" /\ helper.left # {}) =>
          (helper'.state = "running")]_vars

-----------------------------------------------------------------------------
(* The pending flag *)

\* the force-recreate of sync_config, covering the agent, was spawned
ForceSpawned(l) ==
    \E i \in OpsOf(l, "up_detached") :
        l[i].arg = "force" /\ "agent" \in l[i].target /\ l[i].ok

\* C35: the pending flag is false when a new orchestrator starts, whatever the
\* Version Store holds; it is set only by an update_agent whose pull succeeded
\* and cleared only by a sync_config whose force-recreate was spawned; every
\* other step (bootstrap, the fast loop, update_device, an update_agent that
\* fails, a sync_config whose spawn fails) leaves it as it is; and while it is
\* set, self.versions holds a digest for the agent.
C35_PendingFlagDiscipline ==
    [][/\ (pc = "bootstrap") => ~pending
       /\ (~pending /\ pending') =>
             (pc = "update_agent" /\ PullOk(log', AGENT_IMAGE))
       /\ (pending /\ ~pending') =>
             (pc = "sync" /\ handler' = "sync_config" /\ ForceSpawned(log'))
       /\ (pc = "update_agent" /\ ~PullOk(log', AGENT_IMAGE)) => (pending' = pending)
       /\ (pc = "sync" /\ ~ForceSpawned(log')) => (pending' = pending)
       /\ (pc \notin {"update_agent", "sync"}) => (pending' = pending)
       /\ pending' => Truthy(Get(versions', "agent"))]_vars

\* a device update applied while the flag is set: the flag stays
C35_Witness ==
    /\ handler = "update_device"
    /\ cycle["device"].update = "applied"
    /\ pending
    /\ Truthy(Get(versions, "agent"))

-----------------------------------------------------------------------------
(* The backend out of reach *)

\* what GET /api/v1/device/config/ gives when the backend cannot be reached or
\* answers with an error
Outage == {resp \in GateResponses : resp.transport \/ resp.status # 200}

\* every call of the backend among the operations l failed
BackendFailed(l) ==
    \A i \in 1..Len(l) : l[i].op \in {"token", "report"} => ~l[i].ok

\* C31: with the backend failing, updates go on. The failed fetch of the windows
\* makes is_update_allowed answer True at every time of day. A check of the
\* device in which no registry token could be fetched and the remote digest was
\* still resolved proposes it when it differs from the stored one. And an
\* update_device whose unauthenticated pull and restart succeed puts the new
\* digest into the store and counts as applied although the report fails.
C31_BackendOutage ==
    /\ \A resp \in Outage, now \in TimesOfDay :
          IsUpdateAllowed(resp, now) /\ ~IsUpdateAllowedRaises(resp, now)
    /\ ( /\ handler = "check_device_update"
         /\ OpsOf(log, "token") # {} /\ BackendFailed(log)
         /\ \E i \in OpsOf(log, "resolve") :
               log[i].ok /\ log[i].arg # Get(versions, "device") )
       => /\ allowed
          /\ Truthy(device_digest)
          /\ \E i \in OpsOf(log, "resolve") : log[i].ok /\ log[i].arg = device_digest
          /\ pc = "update_device"
    /\ ( /\ handler = "update_device"
         /\ BackendFailed(log)
         /\ \E i \in OpsOf(log, "pull") :
               log[i].target = {DEVICE_IMAGE} /\ log[i].arg = "noauth" /\ log[i].ok
         /\ \E i \in OpsOf(log, "up") : log[i].target = {"device"} /\ log[i].ok )
       => /\ Get(versions, "device") = device_digest
          /\ cycle["device"].update = "applied"
          /\ \E i \in OpsOf(log, "save") : \E j \in OpsOf(log, "report") :
                /\ i < j
                /\ log[i].data["device"] = device_digest
                /\ ~log[j].ok
                /\ log[i].ok => Get(LoadVersions(file, TRUE).value, "device") = device_digest

\* sha256:aaa stored, sha256:bbb applied and stored in a cycle in which no
\* registry login was ever set up and the report failed
C31_Witness ==
    /\ handler = "update_device"
    /\ allowed
    /\ ~authDone
    /\ BackendFailed(log)
    /\ \E i \in OpsOf(log, "pull") : log[i].arg = "noauth" /\ log[i].ok
    /\ \E i \in OpsOf(log, "report") : ~log[i].ok
    /\ Get(cycleStart, "device") = "sha256:aaa"
    /\ Get(versions, "device") = "sha256:bbb"
    /\ Get(LoadVersions(file, TRUE).value, "device") = "sha256:bbb"
    /\ cycle["device"].update = "applied"

-----------------------------------------------------------------------------
(* The first tick and the intervals *)

\* the step calls run_once (which may return or raise)
CallsRunOnce == pc = "slow" /\ handler' \in {"run_once", "is_update_allowed"}

\* the step calls sync_config
CallsSyncConfig == pc = "sync" /\ handler' = "sync_config"

\* C38: in the first tick after bootstrap the update check is run and the config
\* sync is not; the config sync runs only once a full config-sync interval has
\* gone by since the loop started or since the tick it last ran in, the update
\* check only once a full update-check interval has gone by since the tick it
\* last returned in; the time gone by is set back only by those runs and grows
\* only over the sleep at the end of a tick.
C38_StartupScheduling ==
    [][/\ (pc = "slow" /\ boot # "none") => CallsRunOnce
       /\ (pc = "sync" /\ boot # "none") => (sinceSync = 0 /\ ~CallsSyncConfig)
       /\ CallsRunOnce => (sinceUpdate >= UpdateInterval)
       /\ CallsSyncConfig => (sinceSync >= SyncInterval /\ sinceSync' = 0)
       /\ (pc = "run_once_return") => (sinceUpdate' = 0)
       /\ (pc \in LoopPcs /\ sinceUpdate' # sinceUpdate) =>
             \/ pc = "run_once_return"
             \/ pc = "sleep" /\ sinceUpdate' > sinceUpdate
       /\ (pc \in LoopPcs /\ sinceSync' # sinceSync) =>
             \/ CallsSyncConfig
             \/ pc = "sleep" /\ sinceSync' > sinceSync]_vars

\* the first tick has run the update check and comes to the config sync, which
\* is not due
C38_Witness ==
    /\ pc = "sync"
    /\ boot = "complete"
    /\ handler = "run"
    /\ sinceUpdate = 0
    /\ sinceSync = 0

-----------------------------------------------------------------------------
(* Convergence of the update check *)

CheckPc(w) == IF w = "device" THEN "check_device" ELSE "check_agent"

UpdatePc(w) == IF w = "device" THEN "update_device" ELSE "update_agent"

\* among the operations l, a resolution of the image that gave a digest gave R
ResolvedOnly(l, image, R) ==
    \A i \in OpsOf(l, "resolve") : (l[i].target = {image} /\ l[i].ok) => l[i].arg = R

\* among the operations l, the image of the workload is pulled or its service
\* restarted
Touches(l, w) ==
    \E i \in 1..Len(l) :
        \/ l[i].op = "pull" /\ l[i].target = {ImageOf(w)}
        \/ l[i].op \in {"compose_pull", "up"} /\ w \in l[i].target

\* the steps of run_once
CyclePcs == {"slow", "check_device", "update_device", "check_agent", "update_agent",
             "run_once_return"}

\* C37: a successful update leaves the digest it was proposed in the store, and
\* from then on, the registry serving that digest by every strategy, the update
\* check is at rest: a check that resolves nothing else than the stored digest
\* proposes no update; without a proposal run_once does not come to the update,
\* and no other step of run_once pulls the image, restarts the service or
\* changes the stored digest. This for the device and for the agent.
C37_Convergence ==
    [][\A w \in Workloads :
          /\ (pc = UpdatePc(w) /\ cycle'[w].update = "applied") =>
                (Get(versions', w) = Digest(w) /\ Truthy(Digest(w)))
          /\ ( /\ pc = CheckPc(w)
               /\ Truthy(Get(versions, w))
               /\ ResolvedOnly(log', ImageOf(w), Get(versions, w)) )
             => (~Truthy(Digest(w)') /\ pc' # UpdatePc(w))
          /\ (pc' = UpdatePc(w)) => (pc = CheckPc(w) /\ Truthy(Digest(w)'))
          /\ (pc \in CyclePcs \ {UpdatePc(w)}) =>
                (~Touches(log', w) /\ Get(versions', w) = Get(versions, w))]_vars

\* a cycle after the one that updated the agent (the flag it set is still up):
\* both checks resolve the stored digests and propose nothing
C37_Witness ==
    /\ pc = "run_once_return"
    /\ handler = "check_agent_update"
    /\ pending
    /\ cycle["device"].check = "current" /\ cycle["device"].update = "none"
    /\ cycle["agent"].check = "current" /\ cycle["agent"].update = "none"
    /\ versions = cycleStart
    /\ \E i \in OpsOf(log, "resolve") : log[i].ok /\ log[i].arg = Get(versions, "agent")

=============================================================================
